---- MODULE Spec2Model ----
(***************************************************************************)
(* A model of the coordination core of kromer2: the ledger primitive       *)
(* (Transaction::create), the subscription scheduler (src/subs.rs), the    *)
(* bearer session registry (src/auth.rs) and the WebSocket token registry  *)
(* and hub (src/websockets/mod.rs).                                        *)
(*                                                                         *)
(* Every component has a specification of its own (SpecLedger, SpecSubs,   *)
(* SpecTokens, SpecAuth, SpecHub) over the same variables; the variables a *)
(* component does not touch keep their initial value in its specification. *)
(***************************************************************************)
EXTENDS Integers, Sequences, FiniteSets, TLC

VARIABLES
    wallets,        \* store: wallets table, wallet id -> row
    transactions,   \* store: transactions table, append-only sequence of rows
    contracts,      \* store: contract_offers table, contract id -> row
    subscriptions,  \* store: subscriptions table, subscription id -> row
    calls,          \* in-flight Transaction::create calls, one per caller
    sched,          \* the sub_manager task: position, LapsedInfo, open store transaction
    now,            \* the clock (Utc::now / NOW()), in ticks
    chan,           \* signals waiting in the scheduler's notification channel
    auth_sessions,  \* AuthSessions.sessions: uuid -> (address, expires_at)
    auth_calls,     \* in-flight is_authed_addr / session_exists calls, one per caller
    auth_log,       \* what register returned, per uuid, and whether it was revoked
    auth_last,      \* the last step the registry took
    pending_tokens, \* WebSocketServer.pending_tokens: uuid -> token data
    token_log,      \* what obtain_token / use_token returned, per uuid
    ws_sessions,    \* WebSocketServer.sessions: uuid -> session data
    bcast,          \* the last broadcast_event call: event, sends made, state
    senders,        \* whether a Sender of the scheduler's notification channel is alive
    conns,          \* the gateway's connections: uuid -> closed flag, tasks, history
    gw_last,        \* the last gateway request: its token and its outcome
    ws_last,        \* the last perform_login / perform_logout call: inputs and reply
    names,          \* store: names table, name -> row
    xfer,           \* the Name::transfer_ownership call: position, open store transaction, events sent
    wire,           \* the frames sent through the Session of each connection: uuid -> sequence
    patch,          \* the patch_contract request: position, inputs, outcome
    offers          \* store: the validated columns of contract_offers, id -> row

vars == <<wallets, transactions, contracts, subscriptions, calls, sched, now, chan,
          auth_sessions, auth_calls, auth_log, auth_last, pending_tokens, token_log,
          ws_sessions, bcast, senders, conns, gw_last, ws_last, names, xfer,
          wire, patch, offers>>

storeVars == <<wallets, transactions, contracts, subscriptions>>
authVars  == <<auth_sessions, auth_calls, auth_log, auth_last>>
tokenVars == <<pending_tokens, token_log>>
hubVars   == <<ws_sessions, bcast>>
nameVars  == <<names, xfer>>
linkVars  == <<senders, conns, gw_last, ws_last, nameVars, wire, patch, offers>>

NULL == "NULL"

(***************************************************************************)
(* Bounds of the model.                                                    *)
(***************************************************************************)
InitBalance == 2    \* balance every wallet starts with
MaxRows     == 2    \* rows the transactions table may grow to

(***************************************************************************)
(* The store: wallets.                                                     *)
(***************************************************************************)
WalletIds == {1, 2}
Addresses == <<"ka", "kb">>
MissingAddress == "kx"      \* an address no wallet row has
AllAddresses == {Addresses[i] : i \in WalletIds} \cup {MissingAddress}

\* the amounts of the model's transfers: zero (a name transfer), one, and more than a
\* wallet starts with
Amounts == {0, 1, InitBalance + 1}

WalletRow(addr, bal) ==
    [address |-> addr, balance |-> bal, total_in |-> 0, total_out |-> 0]

RECURSIVE SumBalances(_, _)
SumBalances(ws, ids) ==
    IF ids = {} THEN 0
    ELSE LET i == CHOOSE x \in ids : TRUE
         IN ws[i].balance + SumBalances(ws, ids \ {i})

TotalBalance == SumBalances(wallets, WalletIds)

\* Wallet::fetch_by_address: Option<Model> as a set, {} for None and {id} for Some
fetch_by_address(addr) == {i \in WalletIds : wallets[i].address = addr}

\* the CHECK constraint of the wallets table: balance >= 0
BalanceCheck(row) == row.balance >= 0

\* Wallet::update_balance as one UPDATE: balance moves by amount, a debit adds to
\* total_out and a credit to total_in
update_balance(row, amount) ==
    [row EXCEPT !.balance = @ + amount,
                !.total_in = IF amount > 0 THEN @ + amount ELSE @,
                !.total_out = IF amount < 0 THEN @ - amount ELSE @]

(***************************************************************************)
(* Store transactions.  An open transaction holds the rows it has written  *)
(* (and so locked) in `writes` and the rows it has inserted in `rows`;     *)
(* COMMIT makes them the committed state, ROLLBACK (any `?` return drops   *)
(* the sqlx Transaction) forgets them.                                     *)
(***************************************************************************)
NoWrites == <<>>   \* a function with empty domain: no row written

\* the row of wallet i as the transaction with writes w sees it
View(w, i) == IF i \in DOMAIN w THEN w[i] ELSE wallets[i]

\* w with the row of wallet i written as row
Written(w, i, row) == [j \in (DOMAIN w) \cup {i} |-> IF j = i THEN row ELSE w[j]]

\* wallet i is row-locked by a transaction other than the caller's
LockedByOther(i, self) ==
    \/ \E p \in DOMAIN calls : p # self /\ i \in DOMAIN calls[p].writes
    \/ self # "sched" /\ i \in DOMAIN sched.writes

\* tx.commit(): the written rows become the committed rows
CommitWallets(w) == [i \in WalletIds |-> View(w, i)]

(***************************************************************************)
(* 4.A Ledger primitive: Transaction::create, one step per statement.      *)
(***************************************************************************)
Procs == {"p1", "p2"}

IdleCall ==
    [pc |-> "idle", from |-> NULL, to |-> NULL, amount |-> 0,
     sender |-> {}, recipient |-> {}, writes |-> NoWrites, rows |-> <<>>,
     result |-> "none"]

TransferRow(from, to, amount) ==
    [from |-> from, to |-> to, amount |-> amount,
     transaction_type |-> "transfer", metadata |-> ""]

\* what an error return leaves of the call: the sqlx Transaction is dropped, which
\* rolls back, so nothing it wrote reaches the committed tables
RolledBack(c, err) == [IdleCall EXCEPT !.result = err]

\* WalletsAfterError had update_balance run on the pool: what was written stays
WalletsAfterErrorKept(w) == CommitWallets(w)

\* the committed wallets after an error return of a call with writes w
WalletsAfterError(w) == wallets

\* the committed wallets after tx.commit() of a call with writes w
WalletsAfterCommit(w) == CommitWallets(w)

\* conn.begin()
CreateBegin(p) ==
    /\ calls[p].pc = "idle"
    /\ Len(transactions) < MaxRows
    /\ \E from \in AllAddresses, to \in AllAddresses, amount \in Amounts :
         calls' = [calls EXCEPT ![p] =
             [IdleCall EXCEPT !.pc = "begun", !.from = from, !.to = to,
                              !.amount = amount]]
    /\ UNCHANGED <<storeVars, sched, now, chan, authVars, tokenVars, hubVars, linkVars>>

\* Wallet::fetch_by_address(from) ... ok_or_else(NotFound)?
CreateFetchSender(p) ==
    /\ calls[p].pc = "begun"
    /\ LET found == fetch_by_address(calls[p].from)
       IN IF found = {}
          THEN /\ calls' = [calls EXCEPT ![p] = RolledBack(@, "SenderNotFound")]
               /\ wallets' = WalletsAfterError(calls[p].writes)
          ELSE /\ calls' = [calls EXCEPT ![p].pc = "gotSender", ![p].sender = found]
               /\ UNCHANGED wallets
    /\ UNCHANGED <<transactions, contracts, subscriptions, sched, now, chan, authVars,
                   tokenVars, hubVars, linkVars>>

\* Wallet::fetch_by_address(to) ... ok_or_else(NotFound)?
CreateFetchRecipient(p) ==
    /\ calls[p].pc = "gotSender"
    /\ LET found == fetch_by_address(calls[p].to)
       IN IF found = {}
          THEN /\ calls' = [calls EXCEPT ![p] = RolledBack(@, "RecipientNotFound")]
               /\ wallets' = WalletsAfterError(calls[p].writes)
          ELSE /\ calls' = [calls EXCEPT ![p].pc = "gotRecipient",
                                         ![p].recipient = found]
               /\ UNCHANGED wallets
    /\ UNCHANGED <<transactions, contracts, subscriptions, sched, now, chan, authVars,
                   tokenVars, hubVars, linkVars>>

\* one update_balance(&mut *tx, delta)? of wallet i by call p, moving to pc next:
\* the UPDATE waits for the row lock, and fails on the balance check
CreateUpdate(p, i, delta, next) ==
    /\ ~LockedByOther(i, p)
    /\ LET row == update_balance(View(calls[p].writes, i), delta)
       IN IF BalanceCheck(row)
          THEN /\ calls' = [calls EXCEPT ![p].pc = next,
                                         ![p].writes = Written(@, i, row)]
               /\ UNCHANGED wallets
          ELSE /\ calls' = [calls EXCEPT ![p] = RolledBack(@, "InsufficientFunds")]
               /\ wallets' = WalletsAfterError(calls[p].writes)
    /\ UNCHANGED <<transactions, contracts, subscriptions, sched, now, chan, authVars,
                   tokenVars, hubVars, linkVars>>

\* sender.update_balance(&mut *tx, -amount)?
CreateDebit(p) ==
    /\ calls[p].pc = "gotRecipient"
    /\ \E i \in calls[p].sender : CreateUpdate(p, i, 0 - calls[p].amount, "debited")

\* CreateCredit with the sign of the debit: the recipient is debited too
CreateCreditNegated(p) ==
    /\ calls[p].pc = "debited"
    /\ \E i \in calls[p].recipient :
          CreateUpdate(p, i, 0 - calls[p].amount, "credited")

\* recipient.update_balance(&mut *tx, amount)?
CreateCredit(p) ==
    /\ calls[p].pc = "debited"
    /\ \E i \in calls[p].recipient : CreateUpdate(p, i, calls[p].amount, "credited")

\* INSERT INTO transactions ... RETURNING *
CreateInsert(p) ==
    /\ calls[p].pc = "credited"
    /\ calls' = [calls EXCEPT ![p].pc = "inserted",
            ![p].rows = Append(@, TransferRow(calls[p].from, calls[p].to,
                                              calls[p].amount))]
    /\ UNCHANGED <<storeVars, sched, now, chan, authVars, tokenVars, hubVars, linkVars>>

\* tx.commit(); Ok(model)
CreateCommit(p) ==
    /\ calls[p].pc = "inserted"
    /\ wallets' = WalletsAfterCommit(calls[p].writes)
    /\ transactions' = transactions \o calls[p].rows
    /\ calls' = [calls EXCEPT ![p] = RolledBack(@, "ok")]
    /\ UNCHANGED <<contracts, subscriptions, sched, now, chan, authVars, tokenVars, hubVars, linkVars>>

\* a store error (sqlx::Error: connection lost, deadlock detected, ...) at any await
\* of the call: `?` returns it and the transaction rolls back
CreateStoreError(p) ==
    /\ calls[p].pc # "idle"
    /\ calls' = [calls EXCEPT ![p] = RolledBack(@, "StoreError")]
    /\ wallets' = WalletsAfterError(calls[p].writes)
    /\ UNCHANGED <<transactions, contracts, subscriptions, sched, now, chan, authVars,
                   tokenVars, hubVars, linkVars>>

(***************************************************************************)
(* 4.F Subscription scheduler (src/subs.rs).  One clock tick is 10 s.      *)
(* Option<T> values of the store (lapsed_at, allow_list) are sets: {} for  *)
(* NULL / None and {v} for a value.                                        *)
(***************************************************************************)
ProcessWindow == 1      \* INTERVAL '10 SECONDS' of try_process_lapsed
FetchWindow == 6        \* INTERVAL '1 MINUTE' of fetch_soonest
IdleWait == 6           \* Duration::from_secs(60), the wait when nothing is pending
ChannelCapacity == 25   \* tokio::sync::mpsc::channel(25)
EveryMinute == 6        \* the cron expression "* * * * *", as its period in ticks

MaxTime == 7            \* the clock stops here
MaxPending == 2         \* signals the model lets wait in the channel

ContractIds == {1}
SubIds == {1, 2}

\* find_next_occurrence(t, true): t itself when t is an occurrence
find_next_occurrence_inclusive(cron_expr, t) ==
    IF t % cron_expr = 0 THEN t ELSE ((t \div cron_expr) + 1) * cron_expr

\* Cron::from_str(cron_expr).find_next_occurrence(t, false): the smallest occurrence
\* strictly after t; a cron expression is modelled by its period
find_next_occurrence(cron_expr, t) == ((t \div cron_expr) + 1) * cron_expr

\* subscriptions with lapsed_at < NOW() + window
Lapsing(window) ==
    {s \in SubIds : \E t \in subscriptions[s].lapsed_at : t < now + window}

\* ... LIMIT 1 with no ORDER BY: any row of the window may come first
SoonestUnordered(window) == Lapsing(window)

\* ... ORDER BY lapsed_at LIMIT 1: the candidates for the first row
Soonest(window) ==
    {s \in Lapsing(window) :
        \A o \in Lapsing(window) :
            \A t \in subscriptions[s].lapsed_at, u \in subscriptions[o].lapsed_at :
                t <= u}

\* the row try_process_lapsed selects for subscription s (LapsedInfo)
LapsedInfo(s) ==
    LET sub == subscriptions[s]
        c == contracts[sub.contract_id]
    IN [subscription_id |-> s,
        contract_id |-> sub.contract_id,
        lapsed_at |-> CHOOSE t \in sub.lapsed_at : TRUE,
        contractor_id |-> c.owner_id,
        contractee_id |-> sub.wallet_id,
        contractee_addr |-> wallets[sub.wallet_id].address,
        contract_status |-> c.status,
        sub_status |-> sub.status,
        price |-> c.price,
        cron_expr |-> c.cron_expr,
        allow_list |-> c.allow_list]

\* format!("sub_id={}", subscription_id)
SubMetadata(id) == <<"sub_id=", id>>

IdleSched ==
    [pc |-> "fetch", timer |-> {}, info |-> {}, writes |-> NoWrites, rows |-> <<>>,
     next_time |-> {}, result |-> "none", drained |-> 0]

\* the scheduler back at the top of its loop with the outcome of the iteration
LoopAgain(res) == [IdleSched EXCEPT !.result = res]

Info == CHOOSE i \in sched.info : TRUE

\* let next_sub = fetch_soonest_retry(&db).await: the soonest lapsed_at within the
\* next minute, or None (also when every retry met a store error)
SchedFetch ==
    /\ sched.pc = "fetch"
    /\ \/ /\ Soonest(FetchWindow) # {}
          /\ \E s \in Soonest(FetchWindow) :
                sched' = [sched EXCEPT !.pc = "waitSub",
                                       !.timer = subscriptions[s].lapsed_at]
       \/ /\ Soonest(FetchWindow) = {}
          /\ sched' = [sched EXCEPT !.pc = "waitIdle", !.timer = {now + IdleWait}]
    /\ UNCHANGED <<storeVars, calls, now, chan, authVars, tokenVars, hubVars, linkVars>>

\* fetch_soonest failed on each of the five attempts: unwrap_or_default() is None
SchedFetchFailed ==
    /\ sched.pc = "fetch"
    /\ sched' = [sched EXCEPT !.pc = "waitIdle", !.timer = {now + IdleWait}]
    /\ UNCHANGED <<storeVars, calls, now, chan, authVars, tokenVars, hubVars, linkVars>>

\* SchedTimerSub with a dispatch on the contract's status alone: every subscription of
\* a contract that is not canceled is continued
SchedTimerSubByContract ==
    /\ sched.pc = "waitSub"
    /\ \A t \in sched.timer : t <= now
    /\ IF Soonest(ProcessWindow) = {}
       THEN sched' = LoopAgain("NoneLapsed")
       ELSE \E s \in Soonest(ProcessWindow) :
              LET info == LapsedInfo(s)
              IN sched' = [sched EXCEPT
                     !.timer = {},
                     !.info = {info},
                     !.pc = IF info.contract_status = "canceled" THEN "cancel"
                            ELSE "continue"]
    /\ UNCHANGED <<storeVars, calls, now, chan, authVars, tokenVars, hubVars, linkVars>>

\* SchedTimerSub with no wait for sub_timer: process_lapsed runs as soon as the loop
\* reaches the select!
SchedTimerSubEarly ==
    /\ sched.pc = "waitSub"
    /\ IF Soonest(ProcessWindow) = {}
       THEN sched' = LoopAgain("NoneLapsed")
       ELSE \E s \in Soonest(ProcessWindow) :
              LET info == LapsedInfo(s)
              IN sched' = [sched EXCEPT
                     !.timer = {},
                     !.info = {info},
                     !.pc = IF info.contract_status = "canceled" THEN "cancel"
                            ELSE IF info.sub_status = "active" THEN "continue"
                            ELSE "cancel"]
    /\ UNCHANGED <<storeVars, calls, now, chan, authVars, tokenVars, hubVars, linkVars>>

\* select!: sub_timer fired: process_lapsed runs try_process_lapsed, which selects the
\* soonest subscription lapsing within 10 s and dispatches on the two statuses
SchedTimerSub ==
    /\ sched.pc = "waitSub"
    /\ \A t \in sched.timer : t <= now
    /\ IF Soonest(ProcessWindow) = {}
       THEN sched' = LoopAgain("NoneLapsed")
       ELSE \E s \in Soonest(ProcessWindow) :
              LET info == LapsedInfo(s)
              IN sched' = [sched EXCEPT
                     !.timer = {},
                     !.info = {info},
                     !.pc = IF info.contract_status = "canceled" THEN "cancel"
                            ELSE IF info.sub_status = "active" THEN "continue"
                            ELSE "cancel"]
    /\ UNCHANGED <<storeVars, calls, now, chan, authVars, tokenVars, hubVars, linkVars>>

\* select!: sync_timer fired
SchedTimerIdle ==
    /\ sched.pc = "waitIdle"
    /\ \A t \in sched.timer : t <= now
    /\ sched' = LoopAgain(sched.result)
    /\ UNCHANGED <<storeVars, calls, now, chan, authVars, tokenVars, hubVars, linkVars>>

\* recv_drain_all with only its recv(): the while loop of try_recv() is missing
RecvOne(n) == n - 1

\* the signals left in the channel by recv_drain_all on a channel holding n >= 1:
\* rx.recv() takes one, `while rx.try_recv().is_ok() {}` takes the others
recv_drain_all(n) == 0

\* select!: recv_drain_all returned; drained is the number of signals it took.  On a
\* channel that is empty and has no Sender left rx.recv() is None at once and
\* recv_drain_all returns; either way the arm is (), and the loop of sub_manager,
\* which has no break and no return, goes to its next iteration
SchedSignal ==
    /\ sched.pc \in {"waitSub", "waitIdle"}
    /\ chan > 0 \/ ~senders
    /\ chan' = IF chan > 0 THEN recv_drain_all(chan) ELSE chan
    /\ sched' = [LoopAgain(sched.result) EXCEPT !.drained = chan - chan']
    /\ UNCHANGED <<storeVars, calls, now, authVars, tokenVars, hubVars, linkVars>>

\* the Sender new_sub_manager returned, and every clone of it, is dropped: the
\* channel is closed, what is buffered stays readable
DropSenders ==
    /\ senders
    /\ senders' = FALSE
    /\ UNCHANGED <<storeVars, calls, sched, now, chan, authVars, tokenVars, hubVars,
                   conns, gw_last, ws_last, nameVars, wire, patch, offers>>

\* a mutating endpoint: sub_tx.send(SubUpdateNofif).await
SendNotif ==
    /\ senders
    /\ chan < ChannelCapacity
    /\ chan < MaxPending
    /\ chan' = chan + 1
    /\ UNCHANGED <<storeVars, calls, sched, now, authVars, tokenVars, hubVars, linkVars>>

\* the JSON objects a PATCH carries, over the fields of the columns the scheduler
\* reads (title, description, cron_expr and max_subscribers are left out), with the
\* two statuses try_process_lapsed tells apart (it treats closed as open): a key is
\* absent or present, and the value of a present key is <<>> for null or <<v>>
JsonBodies ==
    {[k \in K |-> full[k]] :
        full \in [status : {<<>>, <<"open">>, <<"canceled">>},
                  price : {<<>>, <<0>>, <<InitBalance + 1>>},
                  allow_list : {<<>>, <<{"ka"}>>}],
        K \in SUBSET {"status", "price", "allow_list"}}

\* Patch::deserialize replaced by Option::deserialize(..).map(Into::into): a null
\* becomes Patch::None
from_value_into(json) ==
    [f \in {"status", "price", "allow_list"} |->
        IF f \notin DOMAIN json \/ json[f] = <<>> THEN {}
        ELSE IF f = "allow_list" THEN {{json[f][1]}} ELSE {json[f][1]}]

\* serde_json::from_value::<UpdateContractRequest>: with #[serde(default)] an absent
\* key takes the default of its type, None of an Option and Patch::None of a Patch;
\* a present key goes through Option::deserialize, whose None (null) an Option keeps
\* and Patch::deserialize maps to Patch::Null, and whose Some(v) becomes Patch::Some(v).
\* An Option is {} or {v}; a Patch is {} for Patch::None, {None} = {{}} for
\* Patch::Null and {Some(v)} = {{v}} for Patch::Some(v)
from_value(json) ==
    [f \in {"status", "price", "allow_list"} |->
        IF f \notin DOMAIN json THEN {}
        ELSE IF f = "allow_list"
             THEN (IF json[f] = <<>> THEN {{}} ELSE {{json[f][1]}})
             ELSE (IF json[f] = <<>> THEN {} ELSE {json[f][1]})]

\* the UpdateContractRequest bodies the handler is given
UpdateContractRequests == {from_value(json) : json \in JsonBodies}

\* UpdateContractRequest::is_empty: the status field is not among the fields it tests
is_empty(body) == body.price = {} /\ body.allow_list = {}

\* the row patch_contract writes with its UPDATE, from the row it read FOR UPDATE
PatchedContract(c, body) ==
    [c EXCEPT !.status = IF body.status = {} THEN @ ELSE CHOOSE s \in body.status : TRUE,
              !.price = IF body.price = {} THEN @ ELSE CHOOSE p \in body.price : TRUE,
              !.allow_list = IF body.allow_list = {} THEN @
                             ELSE CHOOSE l \in body.allow_list : TRUE]

\* update_subscribers of patch_contract
update_subscribers(c, body) ==
    \/ body.status \cap {"closed", "canceled"} # {}
    \/ \E p \in body.price : p # c.price

\* PATCH /contracts/{id}: the body is refused when empty, the caller when its session
\* does not own the contract (whatever the body), a price when it is not positive;
\* otherwise the row is rewritten in one transaction and the scheduler is notified
\* when it has to look again
PatchContract ==
    \E is_authed_addr \in BOOLEAN :
        IF ~is_authed_addr
        THEN UNCHANGED vars
        ELSE \E id \in ContractIds, body \in UpdateContractRequests :
          IF is_empty(body) \/ (\E p \in body.price : p <= 0)
          THEN UNCHANGED vars
          ELSE /\ contracts' = [contracts EXCEPT ![id] = PatchedContract(@, body)]
               /\ IF update_subscribers(contracts[id], body)
                  THEN /\ chan < ChannelCapacity
                       /\ chan < MaxPending
                       /\ chan' = chan + 1
                  ELSE chan' = chan
               /\ UNCHANGED <<wallets, transactions, subscriptions, calls, sched, now,
                              authVars, tokenVars, hubVars, linkVars>>

\* patch_contract in its two halves, the request as far as tx.commit() and the send
\* that follows it, for what is asked of the handler itself
MissingContract == 0    \* an id no contract has

IdlePatch ==
    [pc |-> "idle", id |-> MissingContract, body |-> {}, session |-> "none",
     result |-> "none", send_failed |-> FALSE]

\* Refused with the send reached all the same
RefusedThenNotified(id, body, session, err) ==
    /\ patch' = [pc |-> "notify", id |-> id, body |-> {body}, session |-> session,
                 result |-> err, send_failed |-> FALSE]
    /\ UNCHANGED contracts

\* an Err return of patch_contract before tx.commit(): the sqlx Transaction, when one
\* is open, is dropped and rolls back, and the handler is over
Refused(id, body, session, err) ==
    /\ patch' = [pc |-> "idle", id |-> id, body |-> {body}, session |-> session,
                 result |-> err, send_failed |-> FALSE]
    /\ UNCHANGED contracts

\* patch_contract as far as tx.commit(): is_empty, check_bearer, the SELECT ... FOR
\* UPDATE, is_authed_addr, the checks of the fields, the UPDATE and the commit.
\* session is what the bearer token stands for: no session, the session of another
\* address, or the session of the owner's address
patch_contract ==
    /\ patch.pc = "idle"
    /\ \E id \in ContractIds \cup {MissingContract}, body \in UpdateContractRequests,
          session \in {"None", "Other", "Owner"}, commit \in BOOLEAN :
        IF is_empty(body) THEN Refused(id, body, session, "EmptyContractUpdate")
        ELSE IF session = "None" THEN Refused(id, body, session, "InvalidSession")
        ELSE IF id \notin ContractIds THEN Refused(id, body, session, "ContractNotFound")
        ELSE IF session # "Owner" THEN Refused(id, body, session, "Unauthorized")
        ELSE IF \E p \in body.price : p <= 0
             THEN Refused(id, body, session, "InvalidPrice")
        ELSE IF ~commit THEN Refused(id, body, session, "DbError")
        ELSE /\ contracts' = [contracts EXCEPT ![id] = PatchedContract(@, body)]
             /\ patch' = [pc |-> IF update_subscribers(contracts[id], body)
                                 THEN "notify" ELSE "idle",
                          id |-> id, body |-> {body}, session |-> session,
                          result |-> "Ok", send_failed |-> FALSE]
    /\ UNCHANGED <<wallets, transactions, subscriptions, calls, sched, now, chan,
                   authVars, tokenVars, hubVars, senders, conns, gw_last, ws_last,
                   nameVars, wire, offers>>

\* the rest of patch_contract: sub_tx.send(SubUpdateNofif).await, which waits for
\* room in the channel and is Err when the receiver is gone; the Err is logged, and
\* the response is Ok either way.  The receiver lives as long as sub_manager, which
\* never returns, so the Err is the outcome of a scheduler that has panicked
patch_notify ==
    /\ patch.pc = "notify"
    /\ \E receiver \in BOOLEAN :
        IF receiver
        THEN /\ chan < ChannelCapacity
             /\ chan < MaxPending
             /\ chan' = chan + 1
             /\ patch' = [patch EXCEPT !.pc = "idle"]
        ELSE /\ chan' = chan
             /\ patch' = [patch EXCEPT !.pc = "idle", !.send_failed = TRUE]
    /\ UNCHANGED <<storeVars, calls, sched, now, authVars, tokenVars, hubVars, senders,
                   conns, gw_last, ws_last, nameVars, wire, offers>>

\* cancel_sub with an UPDATE that sets the status only and leaves lapsed_at
cancel_sub_status_only(id) ==
    [s \in SubIds |->
        IF s = id THEN [subscriptions[s] EXCEPT !.status = "canceled"]
        ELSE subscriptions[s]]

\* cancel_sub: UPDATE subscriptions SET lapsed_at = NULL, status = 'canceled'
\* WHERE subscription_id = $1, on the pool (autocommit)
cancel_sub(id) ==
    [s \in SubIds |->
        IF s = id THEN [subscriptions[s] EXCEPT !.lapsed_at = {}, !.status = "canceled"]
        ELSE subscriptions[s]]

SchedCancel ==
    /\ sched.pc = "cancel"
    /\ subscriptions' = cancel_sub(Info.subscription_id)
    /\ sched' = LoopAgain(IF Cardinality({Info.subscription_id} \cap SubIds) # 1
                          THEN "Desync" ELSE "Canceled")
    /\ UNCHANGED <<wallets, transactions, contracts, calls, now, chan, authVars,
                   tokenVars, hubVars, linkVars>>

Abs(x) == IF x < 0 THEN 0 - x ELSE x

\* UPDATE wallets SET balance = balance - $1, total_out = abs(total_out) + $2
\* WHERE id = $2, with $1 = price and $2 = the wallet id
DebitRow(row, price, id) ==
    [row EXCEPT !.balance = @ - price, !.total_out = Abs(@) + id]

\* UPDATE wallets SET balance = balance + $1, total_in = abs(total_out) + $2
\* WHERE id = $2, with $1 = price and $2 = the wallet id
CreditRow(row, price, id) ==
    [row EXCEPT !.balance = @ + price, !.total_in = Abs(row.total_out) + id]

\* RenewalRow with the two wallet ids swapped in the INSERT
RenewalRowSwapped(info) ==
    [from |-> View(sched.writes, info.contractor_id).address,
     to |-> View(sched.writes, info.contractee_id).address,
     amount |-> info.price,
     transaction_type |-> "transfer",
     metadata |-> SubMetadata(info.subscription_id)]

\* the transactions row continue_sub inserts
RenewalRow(info) ==
    [from |-> View(sched.writes, info.contractee_id).address,
     to |-> View(sched.writes, info.contractor_id).address,
     amount |-> info.price,
     transaction_type |-> "transfer",
     metadata |-> SubMetadata(info.subscription_id)]

\* AfterContinueError had process_lapsed return the Err out of sub_manager: the task
\* ends
AfterContinueErrorStops(err) ==
    /\ sched' = [sched EXCEPT !.pc = "stopped", !.result = err]
    /\ UNCHANGED subscriptions

\* what try_process_lapsed does with an Err of continue_sub: the arm of an active
\* subscription returns it as it is, and process_lapsed logs it
AfterContinueError(err) ==
    /\ sched' = LoopAgain(err)
    /\ UNCHANGED subscriptions

\* SubsBeforeCommit had the UPDATE of lapsed_at run on the pool: it commits at once
SubsUpdatedOnPool(id, t) == [subscriptions EXCEPT ![id].lapsed_at = t]

\* the committed subscriptions while the UPDATE of lapsed_at waits in the open
\* transaction
SubsBeforeCommit(id, t) == subscriptions

\* the committed subscriptions after tx.commit()
SubsAfterCommit(id, t) == [subscriptions EXCEPT ![id].lapsed_at = t]

\* continue_sub: the allow_list check, then db.begin()
SchedContinue ==
    /\ sched.pc = "continue"
    /\ LET authorized_addr ==
               \A v \in Info.allow_list : Info.contractee_addr \in v
       IN IF ~authorized_addr
          THEN AfterContinueError("Unauthorized")
          ELSE /\ sched' = [sched EXCEPT !.pc = "debit"]
               /\ UNCHANGED subscriptions
    /\ UNCHANGED <<wallets, transactions, contracts, calls, now, chan, authVars,
                   tokenVars, hubVars, linkVars>>

\* the debit of the payer; a check violation maps to InsufficientFunds
SchedDebit ==
    /\ sched.pc = "debit"
    /\ ~LockedByOther(Info.contractee_id, "sched")
    /\ LET id == Info.contractee_id
           row == DebitRow(View(sched.writes, id), Info.price, id)
       IN IF BalanceCheck(row)
          THEN /\ sched' = [sched EXCEPT !.pc = "credit",
                                         !.writes = Written(@, id, row)]
               /\ UNCHANGED subscriptions
          ELSE AfterContinueError("InsufficientFunds")
    /\ UNCHANGED <<wallets, transactions, contracts, calls, now, chan, authVars,
                   tokenVars, hubVars, linkVars>>

\* the credit of the contract owner
SchedCredit ==
    /\ sched.pc = "credit"
    /\ ~LockedByOther(Info.contractor_id, "sched")
    /\ LET id == Info.contractor_id
           row == CreditRow(View(sched.writes, id), Info.price, id)
       IN sched' = [sched EXCEPT !.pc = "insert", !.writes = Written(@, id, row)]
    /\ UNCHANGED <<storeVars, calls, now, chan, authVars, tokenVars, hubVars, linkVars>>

\* INSERT INTO transactions ... RETURNING id
SchedInsert ==
    /\ sched.pc = "insert"
    /\ sched' = [sched EXCEPT !.pc = "update", !.rows = Append(@, RenewalRow(Info))]
    /\ UNCHANGED <<storeVars, calls, now, chan, authVars, tokenVars, hubVars, linkVars>>

\* next_time, and UPDATE subscriptions SET lapsed_at = $1 WHERE subscription_id = $2
SchedUpdate ==
    /\ sched.pc = "update"
    /\ LET next_time == find_next_occurrence(Info.cron_expr, Info.lapsed_at)
       IN /\ sched' = [sched EXCEPT !.pc = "commit", !.next_time = {next_time}]
          /\ subscriptions' = SubsBeforeCommit(Info.subscription_id, {next_time})
    /\ UNCHANGED <<wallets, transactions, contracts, calls, now, chan, authVars,
                   tokenVars, hubVars, linkVars>>

\* tx.commit(); Ok(LapsedRes { status: Renewed, .. })
SchedCommit ==
    /\ sched.pc = "commit"
    /\ wallets' = CommitWallets(sched.writes)
    /\ transactions' = transactions \o sched.rows
    /\ subscriptions' = SubsAfterCommit(Info.subscription_id, sched.next_time)
    /\ sched' = LoopAgain("Renewed")
    /\ UNCHANGED <<contracts, calls, now, chan, authVars, tokenVars, hubVars, linkVars>>

InTransaction == sched.pc \in {"debit", "credit", "insert", "update", "commit"}

\* a store error at any await of continue_sub after db.begin(): `?` returns it, the
\* transaction is dropped and rolls back
SchedStoreError ==
    /\ InTransaction
    /\ sched' = LoopAgain("DbError")
    /\ UNCHANGED <<storeVars, calls, now, chan, authVars, tokenVars, hubVars, linkVars>>

\* the task dies at any point and is spawned again: an open transaction is lost with
\* its connection, which rolls it back
SchedRestart ==
    /\ sched.pc \notin {"fetch"}
    /\ sched' = LoopAgain("Restarted")
    /\ UNCHANGED <<storeVars, calls, now, chan, authVars, tokenVars, hubVars, linkVars>>

\* time passes
Tick ==
    /\ now < MaxTime
    /\ now' = now + 1
    /\ UNCHANGED <<storeVars, calls, sched, chan, authVars, tokenVars, hubVars, linkVars>>

(***************************************************************************)
(* 4.C WebSocket token registry (src/websockets/mod.rs).                   *)
(***************************************************************************)
TOKEN_EXPIRATION == 3   \* Duration::from_secs(30), in ticks of 10 s
MaxUses == 2            \* use_token calls the model makes per uuid
MaxTokenTime == 4       \* the clock of the token registry stops here

Uuids == {"u1", "u2"}

GuestToken == [address |-> "guest", private_key |-> {}]
TokenDatas == {GuestToken, [address |-> "ka", private_key |-> {"pk_ka"}]}

NoTokenLog == [issued |-> FALSE, data |-> {}, at |-> {}, timer |-> FALSE, uses |-> <<>>]

\* pending_tokens.insert_sync(uuid, token_data)
TokensInserted(uuid, token_data) ==
    [u \in (DOMAIN pending_tokens) \cup {uuid} |->
        IF u = uuid THEN token_data ELSE pending_tokens[u]]

\* pending_tokens.remove_sync(uuid) / remove_async(uuid): the map without the key
TokensRemoved(uuid) ==
    [u \in (DOMAIN pending_tokens) \ {uuid} |-> pending_tokens[u]]

\* obtain_token: Uuid::new_v4() is a uuid never returned before (so the retry on a
\* collision is never taken), the insert, and the spawn of the expiry task
obtain_token(uuid, token_data) ==
    /\ ~token_log[uuid].issued
    /\ uuid \notin DOMAIN pending_tokens
    /\ pending_tokens' = TokensInserted(uuid, token_data)
    /\ token_log' = [token_log EXCEPT ![uuid] =
           [NoTokenLog EXCEPT !.issued = TRUE, !.data = {token_data}, !.at = {now},
                              !.timer = TRUE]]

ObtainToken ==
    /\ \E uuid \in Uuids, token_data \in TokenDatas : obtain_token(uuid, token_data)
    /\ UNCHANGED <<storeVars, calls, sched, now, chan, authVars, hubVars, linkVars>>

\* ExpiryDue with a sleep one tick shorter
ExpiryDueEarly(uuid) ==
    /\ token_log[uuid].timer
    /\ \A t \in token_log[uuid].at : now >= t + TOKEN_EXPIRATION - 1

\* the sleep of the expiry task spawned for uuid is over and the task has not run
ExpiryDue(uuid) ==
    /\ token_log[uuid].timer
    /\ \A t \in token_log[uuid].at : now >= t + TOKEN_EXPIRATION

\* the expiry task of obtain_token: after sleep(TOKEN_EXPIRATION), remove_async(&uuid)
TokenExpire ==
    /\ \E uuid \in Uuids :
        /\ ExpiryDue(uuid)
        /\ pending_tokens' = TokensRemoved(uuid)
        /\ token_log' = [token_log EXCEPT ![uuid].timer = FALSE]
    /\ UNCHANGED <<storeVars, calls, sched, now, chan, authVars, hubVars, linkVars>>

\* TokensAfterUse had use_token read the entry (a get) instead of taking it
TokensAfterPeek(uuid) == pending_tokens

\* the map use_token leaves: remove_sync takes the entry out
TokensAfterUse(uuid) == TokensRemoved(uuid)

\* use_token: pending_tokens.remove_sync(uuid).ok_or(TokenNotFound), one atomic step
\* of the map; the outcome is Ok(token) or Err(TokenNotFound)
use_token(uuid) ==
    /\ Len(token_log[uuid].uses) < MaxUses
    /\ pending_tokens' = TokensAfterUse(uuid)
    /\ token_log' = [token_log EXCEPT ![uuid].uses = Append(@,
           IF uuid \in DOMAIN pending_tokens
           THEN [ok |-> TRUE, token |-> {pending_tokens[uuid]}]
           ELSE [ok |-> FALSE, token |-> {}])]

UseToken ==
    /\ \E uuid \in Uuids : use_token(uuid)
    /\ UNCHANGED <<storeVars, calls, sched, now, chan, authVars, hubVars, linkVars>>

\* time passes; a sleep that is over wakes its task before the clock moves on
TokenTick ==
    /\ now < MaxTokenTime
    /\ \A uuid \in Uuids : ~ExpiryDue(uuid)
    /\ now' = now + 1
    /\ UNCHANGED <<storeVars, calls, sched, chan, authVars, tokenVars, hubVars, linkVars>>

(***************************************************************************)
(* 4.B Session registry (src/auth.rs).  One clock tick is 20 minutes.      *)
(* The map is a DashMap: get() returns a Ref that holds the read lock of   *)
(* the key's shard until it is dropped, and insert/remove/retain take the  *)
(* write lock, which waits for every Ref into the shard to be dropped.     *)
(***************************************************************************)
SessionTTL == 2         \* TimeDelta::hours(1), in ticks of 30 minutes
MaxAuthTime == 3        \* the clock of the registry stops here

AuthCallers == {"c1", "c2"}
SessionAddrs == {"ka", "kb"}

IdleAuthCall == [pc |-> "idle", op |-> "none", id |-> NULL, addr |-> NULL,
                 result |-> "none"]

\* the call back in its caller with result r
Returned(r) == [IdleAuthCall EXCEPT !.result = r]

\* some caller holds a Ref into the shard of id, and with it the shard's read lock
\* (each key has a shard of its own here, the least sharing a DashMap can have)
ShardHeld(id) ==
    \E c \in AuthCallers :
        auth_calls[c].pc \in {"holding", "removing"} /\ auth_calls[c].id = id

SessionsInserted(id, entry) ==
    [u \in (DOMAIN auth_sessions) \cup {id} |->
        IF u = id THEN entry ELSE auth_sessions[u]]

SessionsRemoved(ids) ==
    [u \in (DOMAIN auth_sessions) \ ids |-> auth_sessions[u]]

\* the closure of vacuum's retain: the entries it keeps
VacuumKeeps(entry, current_time) == entry.exp <= current_time

\* vacuum: sessions.retain(|_, (_, exp)| *exp <= current_time)
AuthVacuum ==
    /\ \A u \in DOMAIN auth_sessions : ~ShardHeld(u)
    /\ LET dropped == {u \in DOMAIN auth_sessions : ~VacuumKeeps(auth_sessions[u], now)}
       IN /\ auth_sessions' = SessionsRemoved(dropped)
          /\ auth_log' = [u \in DOMAIN auth_log |->
                 IF u \in dropped THEN [auth_log[u] EXCEPT !.vacuumed = TRUE]
                 ELSE auth_log[u]]
    /\ auth_last' = "vacuum"
    /\ UNCHANGED <<storeVars, calls, sched, now, chan, auth_calls, tokenVars, hubVars, linkVars>>

\* register: a fresh uuid, exp = now + 1 hour, insert
AuthRegister ==
    /\ \E id \in Uuids, addr \in SessionAddrs :
        /\ id \notin DOMAIN auth_log
        /\ ~ShardHeld(id)
        /\ auth_sessions' = SessionsInserted(id, [addr |-> addr, exp |-> now + SessionTTL])
        /\ auth_log' = [u \in (DOMAIN auth_log) \cup {id} |->
               IF u = id THEN [addr |-> addr, exp |-> now + SessionTTL,
                               revoked |-> FALSE, vacuumed |-> FALSE]
               ELSE auth_log[u]]
    /\ auth_last' = "register"
    /\ UNCHANGED <<storeVars, calls, sched, now, chan, auth_calls, tokenVars, hubVars, linkVars>>

\* revoke: sessions.remove(&id).ok_or(InvalidSession)
AuthRevoke ==
    /\ \E id \in DOMAIN auth_sessions :
        /\ ~ShardHeld(id)
        /\ auth_sessions' = SessionsRemoved({id})
        /\ auth_log' = [auth_log EXCEPT ![id].revoked = TRUE]
    /\ auth_last' = "revoke"
    /\ UNCHANGED <<storeVars, calls, sched, now, chan, auth_calls, tokenVars, hubVars, linkVars>>

\* the first statement of is_authed_addr (op = "is_authed_addr") and of session_exists
\* (op = "session_exists"): sessions.get(&id); a missing key returns None / false at
\* once, a present one leaves the caller holding the Ref
AuthGet(c) ==
    /\ auth_calls[c].pc = "idle"
    /\ \E op \in {"is_authed_addr", "session_exists"}, id \in Uuids, addr \in SessionAddrs :
        auth_calls' = [auth_calls EXCEPT ![c] =
            IF id \in DOMAIN auth_sessions
            THEN [pc |-> "holding", op |-> op, id |-> id, addr |-> addr,
                  result |-> "none"]
            ELSE Returned(IF op = "is_authed_addr" THEN "None" ELSE "false")]
    /\ auth_last' = "get"
    /\ UNCHANGED <<storeVars, calls, sched, now, chan, auth_sessions, auth_log,
                   tokenVars, hubVars, linkVars>>

\* the entry is expired for the call: *exp <= Utc::now()
Expired(entry) == entry.exp <= now

\* the else branch: Some(addr == actual_addr) / true, and the Ref is dropped on return
AuthAnswer(c) ==
    /\ auth_calls[c].pc = "holding"
    /\ ~Expired(auth_sessions[auth_calls[c].id])
    /\ auth_calls' = [auth_calls EXCEPT ![c] = Returned(
               IF auth_calls[c].op = "session_exists" THEN "true"
               ELSE IF auth_calls[c].addr = auth_sessions[auth_calls[c].id].addr
                    THEN "Some(true)" ELSE "Some(false)")]
    /\ auth_last' = "answer"
    /\ UNCHANGED <<storeVars, calls, sched, now, chan, auth_sessions, auth_log,
                   tokenVars, hubVars, linkVars>>

\* the expired branch reaches sessions.remove(&id) with the Ref of the lookup (`val`,
\* `res`) still alive: it lives to the end of the function
AuthEvictBegin(c) ==
    /\ auth_calls[c].pc = "holding"
    /\ Expired(auth_sessions[auth_calls[c].id])
    /\ auth_calls' = [auth_calls EXCEPT ![c].pc = "removing"]
    /\ auth_last' = "evict"
    /\ UNCHANGED <<storeVars, calls, sched, now, chan, auth_sessions, auth_log,
                   tokenVars, hubVars, linkVars>>

\* sessions.remove(&id) gets the write lock of the shard once no Ref into it is held,
\* removes the entry, and the call returns None / false
AuthEvict(c) ==
    /\ auth_calls[c].pc = "removing"
    /\ ~ShardHeld(auth_calls[c].id)
    /\ auth_sessions' = SessionsRemoved({auth_calls[c].id})
    /\ auth_calls' = [auth_calls EXCEPT ![c] =
           Returned(IF auth_calls[c].op = "is_authed_addr" THEN "None" ELSE "false")]
    /\ auth_last' = "evicted"
    /\ UNCHANGED <<storeVars, calls, sched, now, chan, auth_log, tokenVars, hubVars, linkVars>>

AuthTick ==
    /\ now < MaxAuthTime
    /\ now' = now + 1
    /\ auth_last' = "tick"
    /\ UNCHANGED <<storeVars, calls, sched, chan, auth_sessions, auth_calls, auth_log,
                   tokenVars, hubVars, linkVars>>

(***************************************************************************)
(* 4.D WebSocket hub (src/websockets/mod.rs): the session map, the         *)
(* subscription sets and the filtered broadcast.                           *)
(***************************************************************************)
SubscriptionKinds ==
    {"blocks", "ownBlocks", "transactions", "ownTransactions", "names", "ownNames",
     "motd"}

\* the kinds the model subscribes to and unsubscribes from
KindInputs == {"transactions", "ownTransactions", "names", "ownNames"}

\* the keys the model logs in with, and the address wallet verification derives
PrivateKeys == {"pk_ka", "pk_kb"}
AddressOf(private_key) == IF private_key = "pk_ka" THEN "ka" ELSE "kb"

\* the events the model broadcasts; Transaction.from is an Option, here a set
NoEvent == [kind |-> "none", from |-> {}, to |-> NULL, owner |-> NULL, miner |-> NULL]
TransactionEvents ==
    {[kind |-> "transaction", from |-> f, to |-> t, owner |-> NULL, miner |-> NULL] :
        f \in {{}, {"ka"}}, t \in {"ka", "kb"}}
NameEvents ==
    {[kind |-> "name", from |-> {}, to |-> NULL, owner |-> o, miner |-> NULL] :
        o \in {"ka", "kb"}}
BlockEvents ==
    {[kind |-> "block", from |-> {}, to |-> NULL, owner |-> NULL, miner |-> m] :
        m \in {"ka", "kb"}}
Events == TransactionEvents \cup NameEvents \cup BlockEvents

IdleBcast == [state |-> "idle", event |-> NoEvent, futures |-> <<>>, pending |-> {}]

\* WebSocketSessionData::is_guest
is_guest(client_data) == client_data.address = "guest"

\* WebSocketSessionData::is_subscribed_to
is_subscribed_to(client_data, kind) == kind \in client_data.subscriptions

\* insert_session: the default subscriptions and the data of the token
NewSession(data) ==
    [address |-> data.address, private_key |-> data.private_key,
     subscriptions |-> {"ownTransactions", "blocks"}]

\* sessions.update_sync(uuid, f): the map with f's result at uuid, unchanged when the
\* uuid is not in it
SessionsUpdated(uuid, new) ==
    [u \in DOMAIN ws_sessions |->
        IF u = uuid THEN new ELSE ws_sessions[u]]

\* cleanup_session with a remove that takes nothing out
cleanup_session_kept(uuid) == ws_sessions

\* cleanup_session: sessions.remove_sync(uuid)
cleanup_session(uuid) == [u \in (DOMAIN ws_sessions) \ {uuid} |-> ws_sessions[u]]

\* the gateway, after use_token: insert_session(uuid, session, data); insert_sync
\* refuses a uuid that is in the map
HubInsert ==
    /\ \E uuid \in Uuids \ DOMAIN ws_sessions, data \in TokenDatas :
        ws_sessions' = [u \in (DOMAIN ws_sessions) \cup {uuid} |->
            IF u = uuid THEN NewSession(data) ELSE ws_sessions[u]]
    /\ UNCHANGED <<storeVars, calls, sched, now, chan, authVars, tokenVars, bcast, linkVars>>

\* perform_login with a key that verifies: address and private_key are rewritten
HubLogin ==
    /\ \E uuid \in DOMAIN ws_sessions, private_key \in PrivateKeys :
        ws_sessions' = SessionsUpdated(uuid,
            [ws_sessions[uuid] EXCEPT !.address = AddressOf(private_key),
                                      !.private_key = {private_key}])
    /\ UNCHANGED <<storeVars, calls, sched, now, chan, authVars, tokenVars, bcast, linkVars>>

\* no perform_login or perform_logout call yet
NoLogin ==
    [op |-> "none", uuid |-> NULL, verified |-> FALSE, ok |-> TRUE, is_guest |-> TRUE, address |-> {},
     error |-> NULL]

\* perform_login, the whole handler: Wallet::verify_address answers Err, Ok with
\* authed = false, or Ok with authed = true and the wallet; only the last rewrites
\* the session, and when update_async finds no session the reply is the error
\* session_not_found with ok = false
perform_login ==
    /\ \E uuid \in Uuids, private_key \in PrivateKeys,
          wallet \in {"Err", "Denied", "Authed"} :
        IF wallet = "Authed"
        THEN /\ ws_sessions' = SessionsUpdated(uuid,
                    [ws_sessions[uuid] EXCEPT !.address = AddressOf(private_key),
                                              !.private_key = {private_key}])
             /\ ws_last' =
                    IF uuid \in DOMAIN ws_sessions
                    THEN [op |-> "login", uuid |-> uuid, verified |-> TRUE, ok |-> TRUE,
                          is_guest |-> FALSE, address |-> {AddressOf(private_key)},
                          error |-> NULL]
                    ELSE [op |-> "login", uuid |-> uuid, verified |-> TRUE, ok |-> FALSE,
                          is_guest |-> FALSE, address |-> {},
                          error |-> "session_not_found"]
        ELSE /\ ws_sessions' = ws_sessions
             /\ ws_last' = [op |-> "login", uuid |-> uuid, verified |-> FALSE,
                            ok |-> TRUE, is_guest |-> TRUE, address |-> {},
                            error |-> NULL]
    /\ UNCHANGED <<storeVars, calls, sched, now, chan, authVars, tokenVars, bcast,
                   senders, conns, gw_last, nameVars, wire, patch, offers>>

\* perform_logout without the line that clears the private key
LoggedOutKeepingKey(client_data) == [client_data EXCEPT !.address = "guest"]

\* the closure perform_logout gives to update_sync
LoggedOut(client_data) == [client_data EXCEPT !.address = "guest", !.private_key = {}]

\* perform_logout, the whole handler: the session is reset and the reply is
\* {ok, is_guest: true}, or the error session_not_found when the uuid is not in the hub
perform_logout ==
    /\ \E uuid \in Uuids :
        /\ ws_sessions' = SessionsUpdated(uuid, LoggedOut(ws_sessions[uuid]))
        /\ ws_last' =
               IF uuid \in DOMAIN ws_sessions
               THEN [op |-> "logout", uuid |-> uuid, verified |-> FALSE, ok |-> TRUE,
                     is_guest |-> TRUE, address |-> {}, error |-> NULL]
               ELSE [op |-> "logout", uuid |-> uuid, verified |-> FALSE, ok |-> FALSE,
                     is_guest |-> FALSE, address |-> {}, error |-> "session_not_found"]
    /\ UNCHANGED <<storeVars, calls, sched, now, chan, authVars, tokenVars, bcast,
                   senders, conns, gw_last, nameVars, wire, patch, offers>>

\* perform_logout: address = "guest", private_key = None
HubLogout ==
    /\ \E uuid \in DOMAIN ws_sessions :
        ws_sessions' = SessionsUpdated(uuid,
            [ws_sessions[uuid] EXCEPT !.address = "guest", !.private_key = {}])
    /\ UNCHANGED <<storeVars, calls, sched, now, chan, authVars, tokenVars, bcast, linkVars>>

\* subscribe_to_event with an insert that takes the kind out when it is there
subscribe_toggling(sessions, uuid, event) ==
    [u \in DOMAIN sessions |->
        IF u = uuid
        THEN [sessions[u] EXCEPT !.subscriptions =
                  IF event \in @ THEN @ \ {event} ELSE @ \cup {event}]
        ELSE sessions[u]]

\* subscribe_to_event on the session map: update_sync runs the closure on the session
\* of uuid, where insert_sync adds the kind or fails when it is there; no session of
\* that uuid, no change
subscribe_to_event(sessions, uuid, event) ==
    [u \in DOMAIN sessions |->
        IF u = uuid THEN [sessions[u] EXCEPT !.subscriptions = @ \cup {event}]
        ELSE sessions[u]]

\* unsubscribe_from_event on the session map: remove_sync takes the kind out or
\* finds none
unsubscribe_from_event(sessions, uuid, event) ==
    [u \in DOMAIN sessions |->
        IF u = uuid THEN [sessions[u] EXCEPT !.subscriptions = @ \ {event}]
        ELSE sessions[u]]

HubSubscribe ==
    /\ \E uuid \in Uuids, event \in KindInputs :
        ws_sessions' = subscribe_to_event(ws_sessions, uuid, event)
    /\ UNCHANGED <<storeVars, calls, sched, now, chan, authVars, tokenVars, bcast, linkVars>>

HubUnsubscribe ==
    /\ \E uuid \in Uuids, event \in KindInputs :
        ws_sessions' = unsubscribe_from_event(ws_sessions, uuid, event)
    /\ UNCHANGED <<storeVars, calls, sched, now, chan, authVars, tokenVars, bcast, linkVars>>

\* a connection ends (timeout, failed ping, end of stream, Close frame): cleanup_session
HubCleanup ==
    /\ \E uuid \in DOMAIN ws_sessions : ws_sessions' = cleanup_session(uuid)
    /\ UNCHANGED <<storeVars, calls, sched, now, chan, authVars, tokenVars, bcast, linkVars>>

\* transaction.from.as_deref().unwrap_or_default()
TransactionFrom(event) == IF event.from = {} THEN "" ELSE CHOOSE f \in event.from : TRUE

\* ShouldSend without the test of the sender's address in the Transaction arm
ShouldSendToOnly(client_data, event) ==
    IF event.kind = "transaction"
    THEN \/ /\ ~is_guest(client_data)
            /\ client_data.address = event.to
            /\ is_subscribed_to(client_data, "ownTransactions")
         \/ is_subscribed_to(client_data, "transactions")
    ELSE \/ /\ ~is_guest(client_data)
            /\ client_data.address = event.owner
            /\ is_subscribed_to(client_data, "ownNames")
         \/ is_subscribed_to(client_data, "names")

\* the condition of broadcast_event's iter_sync closure under which it pushes a send
\* future for the session, for a Transaction and for a Name event
ShouldSend(client_data, event) ==
    IF event.kind = "transaction"
    THEN \/ /\ ~is_guest(client_data)
            /\ \/ client_data.address = event.to
               \/ client_data.address = TransactionFrom(event)
            /\ is_subscribed_to(client_data, "ownTransactions")
         \/ is_subscribed_to(client_data, "transactions")
    ELSE \/ /\ ~is_guest(client_data)
            /\ client_data.address = event.owner
            /\ is_subscribed_to(client_data, "ownNames")
         \/ is_subscribed_to(client_data, "names")

\* the send futures the closure has pushed when iter_sync returns: how many per session
Futures(event) ==
    [u \in DOMAIN ws_sessions |-> IF ShouldSend(ws_sessions[u], event) THEN 1 ELSE 0]

\* broadcast_event up to the end of iter_sync; a Block event reaches todo!() in the
\* closure, which panics, when there is a session to visit
BroadcastEvent ==
    /\ bcast.state \in {"idle", "panicked"}
    /\ \E event \in Events :
        IF event.kind = "block"
        THEN bcast' = [IdleBcast EXCEPT !.event = event,
                 !.state = IF DOMAIN ws_sessions = {} THEN "idle" ELSE "panicked"]
        ELSE LET futures == Futures(event)
                 pending == {u \in DOMAIN futures : futures[u] > 0}
             IN bcast' = [state |-> IF pending = {} THEN "idle" ELSE "sending",
                          event |-> event, futures |-> futures, pending |-> pending]
    /\ UNCHANGED <<storeVars, calls, sched, now, chan, authVars, tokenVars, ws_sessions, linkVars>>

\* session.text(msg).await returned Ok: the frame is on the wire of the connection
\* (of those whose wire is followed)
Sent(uuid, frame) ==
    IF uuid \in DOMAIN wire THEN [wire EXCEPT ![uuid] = Append(@, frame)] ELSE wire

\* futures.next().await: the send to one session resolves, Ok or Err(Closed); a failed
\* one is cleaned up
BroadcastDeliver ==
    /\ bcast.state = "sending"
    /\ \E uuid \in bcast.pending, ok \in BOOLEAN :
        /\ bcast' = [bcast EXCEPT !.pending = @ \ {uuid},
                                  !.state = IF bcast.pending = {uuid} THEN "idle"
                                            ELSE "sending"]
        /\ ws_sessions' = IF ok THEN ws_sessions ELSE cleanup_session(uuid)
        /\ wire' = IF ok THEN Sent(uuid, bcast.event.kind) ELSE wire
    /\ UNCHANGED <<storeVars, calls, sched, now, chan, authVars, tokenVars, senders, conns,
                   gw_last, ws_last, nameVars, patch, offers>>

\* the message of WebSocketServer::broadcast, which is no event
TextMessage == [NoEvent EXCEPT !.kind = "text"]

\* the send futures of broadcast when iter_async returns: one for every session
AllFutures == [u \in DOMAIN ws_sessions |-> 1]

\* broadcast(msg) up to the end of iter_async: a send is pushed for every session
\* in the map; its loop over the futures is the one of broadcast_event
Broadcast ==
    /\ bcast.state \in {"idle", "panicked"}
    /\ bcast' = [state |-> IF DOMAIN ws_sessions = {} THEN "idle" ELSE "sending",
                 event |-> TextMessage, futures |-> AllFutures,
                 pending |-> DOMAIN ws_sessions]
    /\ UNCHANGED <<storeVars, calls, sched, now, chan, authVars, tokenVars, ws_sessions,
                   linkVars>>

(***************************************************************************)
(* 4.E WebSocket gateway (src/routes/krist/ws.rs): the upgrade request and *)
(* the two tasks of a connection, heartbeat and read loop.                 *)
(***************************************************************************)
HEARTBEAT_INTERVAL == 1     \* 5 s: the unit of the gateway's clock
CLIENT_TIMEOUT == 2         \* 10 s
MaxConnTime == 4            \* the gateway's clock stops here
MaxReads == 2               \* inbound frames the model reads per connection

\* a key wallet verification never reports as authorized
WrongKeys == {"pk_no"}

\* what Wallet::verify_address answers for a key: Err, or Ok with authed and model;
\* the keys of PrivateKeys are the ones it authorizes for their address
VerifyOutcomes(private_key) ==
    IF private_key \in PrivateKeys THEN {"Err", "Authed"} ELSE {"Err", "Denied"}

\* POST /ws/start: with no private key the token is a guest's; with one,
\* verify_address is awaited, its Err is AuthFailed, and its Ok, whatever its authed
\* field, gives the token the address of wallet.model and the key
setup_ws ==
    /\ \E uuid \in Uuids,
          private_key \in {{}} \cup {{k} : k \in PrivateKeys \cup WrongKeys},
          model \in SessionAddrs :
        IF private_key = {}
        THEN obtain_token(uuid, GuestToken)
        ELSE \E pk \in private_key : \E wallet \in VerifyOutcomes(pk) :
               /\ wallet = "Authed" => model = AddressOf(pk)
               /\ IF wallet = "Err"
                  THEN UNCHANGED tokenVars
                  ELSE obtain_token(uuid, [address |-> model, private_key |-> {pk}])
    /\ UNCHANGED <<storeVars, calls, sched, now, chan, authVars, hubVars, linkVars>>

\* the {token} of the request path: a uuid in text, or text that is no uuid
PathTokens == Uuids \cup {"not-a-uuid"}

\* Uuid::from_str(&token): Ok(uuid) or Err, here a set
from_str(token) == IF token \in Uuids THEN {token} ELSE {}

NoRequest == [token |-> "none", result |-> "none"]

\* the connection's state as gateway leaves it: alive = Instant::now(),
\* session_closed = false, both tasks spawned, the interval's first tick is at once
NewConn ==
    [closed |-> FALSE, alive |-> now, hb |-> "ticking", next_tick |-> now,
     rd |-> "reading", link |-> "up", reads |-> 0, cleanups |-> 0,
     close_sent |-> FALSE, opened |-> 1]

\* UpgradeData with a failed use_token replaced by the data of a guest
UpgradeDataOrGuest(uuid) ==
    IF uuid \in DOMAIN pending_tokens THEN {pending_tokens[uuid]} ELSE {GuestToken}

\* let data = server.use_token(&uuid).map_err(..)?: the token data the handler goes
\* on with, none when use_token failed
UpgradeData(uuid) ==
    IF uuid \in DOMAIN pending_tokens THEN {pending_tokens[uuid]} ELSE {}

\* the gateway handler: Uuid::from_str, use_token, actix_ws::handle (the handshake,
\* which `?` returns on), insert_session, and the spawn of the two tasks;
\* insert_sync refuses a uuid that is in the session map
Gateway ==
    /\ \E token \in PathTokens :
        IF from_str(token) = {}
        THEN /\ gw_last' = [token |-> token, result |-> "InvalidWebsocketToken"]
             /\ UNCHANGED <<tokenVars, ws_sessions, conns>>
        ELSE \E uuid \in from_str(token) :
            /\ use_token(uuid)
            /\ IF UpgradeData(uuid) = {}
               THEN /\ gw_last' = [token |-> token, result |-> "InvalidWebsocketToken"]
                    /\ UNCHANGED <<ws_sessions, conns>>
               ELSE \E data \in UpgradeData(uuid), handshake \in BOOLEAN :
                    IF ~handshake
                    THEN /\ gw_last' = [token |-> token, result |-> "HandshakeError"]
                         /\ UNCHANGED <<ws_sessions, conns>>
                    ELSE /\ gw_last' = [token |-> token, result |-> "Ok"]
                         /\ ws_sessions' =
                              IF uuid \in DOMAIN ws_sessions THEN ws_sessions
                              ELSE [u \in (DOMAIN ws_sessions) \cup {uuid} |->
                                      IF u = uuid THEN NewSession(data)
                                      ELSE ws_sessions[u]]
                         /\ conns' = [u \in (DOMAIN conns) \cup {uuid} |->
                              IF u # uuid THEN conns[u]
                              ELSE [NewConn EXCEPT !.opened =
                                      (IF uuid \in DOMAIN conns THEN conns[uuid].opened ELSE 0)
                                      + (IF uuid \in DOMAIN ws_sessions THEN 0 ELSE 1)]]
    /\ UNCHANGED <<storeVars, calls, sched, now, chan, authVars, bcast, senders, ws_last, nameVars, wire, patch, offers>>

MaxFrames == 3          \* frames the model sends on one connection

\* gateway as far as server.insert_session(uuid, session.clone(), data), for a token
\* use_token has returned: the session is in the hub and nothing was sent on it yet
GatewayInsert ==
    /\ \E uuid \in Uuids \ (DOMAIN ws_sessions \cup DOMAIN wire), data \in TokenDatas :
        /\ ws_sessions' = [u \in (DOMAIN ws_sessions) \cup {uuid} |->
               IF u = uuid THEN NewSession(data) ELSE ws_sessions[u]]
        /\ wire' = [u \in (DOMAIN wire) \cup {uuid} |-> IF u = uuid THEN <<>> ELSE wire[u]]
    /\ UNCHANGED <<storeVars, calls, sched, now, chan, authVars, tokenVars, bcast, senders,
                   conns, gw_last, ws_last, nameVars, patch, offers>>

\* the hello frame of connection uuid has not been sent
HelloDue(uuid) == uuid \in DOMAIN wire /\ \A i \in 1..Len(wire[uuid]) : wire[uuid][i] # "hello"

\* gateway, the statement after insert_session and the clones:
\* handler::send_hello_message(&mut session).await
GatewayHello ==
    /\ \E uuid \in Uuids :
        /\ HelloDue(uuid)
        /\ wire' = Sent(uuid, "hello")
    /\ UNCHANGED <<storeVars, calls, sched, now, chan, authVars, tokenVars, hubVars, senders,
                   conns, gw_last, ws_last, nameVars, patch, offers>>

\* no connection has had MaxFrames frames
WireRoom == \A u \in DOMAIN wire : Len(wire[u]) < MaxFrames

\* the cleanup_session closure of gateway: compare_exchange(false, true) on
\* session_closed and, when it wins, server.cleanup_session(&uuid)
ConnAfterCleanupClosure(c) ==
    IF c.closed THEN c ELSE [c EXCEPT !.closed = TRUE, !.cleanups = @ + 1]

SessionsAfterCleanupClosure(uuid) ==
    IF conns[uuid].closed THEN ws_sessions ELSE cleanup_session(uuid)

\* server.cleanup_session(&uuid) called past the closure
ConnAfterServerCleanup(c) == [c EXCEPT !.cleanups = @ + 1]

\* heartbeat_handle.abort()
Aborted(c) == [c EXCEPT !.hb = IF @ = "ticking" THEN "aborted" ELSE @]

\* TimedOut with the timeout one interval longer
TimedOutLate(last_heartbeat) ==
    now - last_heartbeat > CLIENT_TIMEOUT + HEARTBEAT_INTERVAL

\* Instant::now().duration_since(*last_heartbeat) > CLIENT_TIMEOUT
TimedOut(last_heartbeat) == now - last_heartbeat > CLIENT_TIMEOUT

\* one iteration of the heartbeat task's loop, after interval.tick()
Heartbeat(uuid) ==
    /\ uuid \in DOMAIN conns
    /\ conns[uuid].hb = "ticking"
    /\ now >= conns[uuid].next_tick
    /\ LET c == conns[uuid]
           stop == [ConnAfterCleanupClosure(c) EXCEPT !.hb = "exited"]
       IN IF c.closed
          THEN /\ conns' = [conns EXCEPT ![uuid].hb = "exited"]
               /\ UNCHANGED ws_sessions
          ELSE IF TimedOut(c.alive)
          THEN /\ conns' = [conns EXCEPT ![uuid] = stop]
               /\ ws_sessions' = SessionsAfterCleanupClosure(uuid)
          ELSE \E ping_ok \in (IF c.link = "up" THEN {TRUE} ELSE BOOLEAN) :
               IF ping_ok
               THEN /\ conns' = [conns EXCEPT ![uuid].next_tick = @ + HEARTBEAT_INTERVAL]
                    /\ UNCHANGED ws_sessions
               ELSE /\ conns' = [conns EXCEPT ![uuid] = stop]
                    /\ ws_sessions' = SessionsAfterCleanupClosure(uuid)
    /\ UNCHANGED <<storeVars, calls, sched, now, chan, authVars, tokenVars, bcast,
                   senders, gw_last, ws_last, nameVars, wire, patch, offers>>

Frames == {"Ping", "Text", "Close", "Pong", "Binary"}

\* one iteration of the read task's `while let Some(Ok(msg)) = stream.recv().await`
ReadFrame(uuid) ==
    /\ uuid \in DOMAIN conns
    /\ conns[uuid].rd = "reading"
    /\ conns[uuid].reads < MaxReads
    /\ LET c == [conns[uuid] EXCEPT !.reads = @ + 1]
       IN \E msg \in Frames :
            CASE msg = "Ping" ->
                   \E pong_ok \in (IF c.link = "up" THEN {TRUE} ELSE BOOLEAN) :
                      /\ conns' = [conns EXCEPT ![uuid] =
                             IF pong_ok THEN c ELSE Aborted([c EXCEPT !.rd = "exited"])]
                      /\ UNCHANGED ws_sessions
              [] msg = "Close" ->
                   /\ conns' = [conns EXCEPT ![uuid] =
                          Aborted([ConnAfterServerCleanup(c) EXCEPT
                                      !.rd = "exited", !.close_sent = TRUE])]
                   /\ ws_sessions' = cleanup_session(uuid)
              [] msg = "Pong" ->
                   /\ conns' = [conns EXCEPT ![uuid] = [c EXCEPT !.alive = now]]
                   /\ UNCHANGED ws_sessions
              [] OTHER ->
                   /\ conns' = [conns EXCEPT ![uuid] = c]
                   /\ UNCHANGED ws_sessions
    /\ UNCHANGED <<storeVars, calls, sched, now, chan, authVars, tokenVars, bcast,
                   senders, gw_last, ws_last, nameVars, wire, patch, offers>>

\* stream.recv() returned None or an Err: session.close(None), the closure, and the
\* abort of the heartbeat task
StreamEnd(uuid) ==
    /\ uuid \in DOMAIN conns
    /\ conns[uuid].rd = "reading"
    /\ conns[uuid].link = "down"
    /\ conns' = [conns EXCEPT ![uuid] =
           Aborted([ConnAfterCleanupClosure(conns[uuid]) EXCEPT
                       !.rd = "exited", !.close_sent = TRUE])]
    /\ ws_sessions' = SessionsAfterCleanupClosure(uuid)
    /\ UNCHANGED <<storeVars, calls, sched, now, chan, authVars, tokenVars, bcast,
                   senders, gw_last, ws_last, nameVars, wire, patch, offers>>

\* broadcast_event's loop over the sends: a failed one calls self.cleanup_session
BroadcastSendFailed(uuid) ==
    /\ uuid \in DOMAIN conns
    /\ uuid \in DOMAIN ws_sessions
    /\ conns[uuid].link = "down"
    /\ conns' = [conns EXCEPT ![uuid] = ConnAfterServerCleanup(@)]
    /\ ws_sessions' = cleanup_session(uuid)
    /\ UNCHANGED <<storeVars, calls, sched, now, chan, authVars, tokenVars, bcast,
                   senders, gw_last, ws_last, nameVars, wire, patch, offers>>

\* the peer goes away: sends to it fail from now on and its stream ends
LinkDrop(uuid) ==
    /\ uuid \in DOMAIN conns
    /\ conns[uuid].link = "up"
    /\ conns' = [conns EXCEPT ![uuid].link = "down"]
    /\ UNCHANGED <<storeVars, calls, sched, now, chan, authVars, tokenVars, hubVars,
                   senders, gw_last, ws_last, nameVars, wire, patch, offers>>

ConnTick ==
    /\ now < MaxConnTime
    /\ now' = now + 1
    /\ UNCHANGED <<storeVars, calls, sched, chan, authVars, tokenVars, hubVars, linkVars>>

(***************************************************************************)
(* Initial states and specifications.                                      *)
(***************************************************************************)
ContractStatuses == {"open", "closed", "canceled"}
SubStatuses == {"active", "pending", "canceled"}

InitWallets == wallets = [i \in WalletIds |-> WalletRow(Addresses[i], InitBalance)]

InitStoreEmpty ==
    /\ InitWallets
    /\ transactions = <<>>
    /\ contracts = <<>>
    /\ subscriptions = <<>>

InitTasks ==
    /\ calls = [p \in Procs |-> IdleCall]
    /\ sched = IdleSched
    /\ now = 0
    /\ chan = 0

InitAuth ==
    /\ auth_sessions = <<>>
    /\ auth_calls = [c \in AuthCallers |-> IdleAuthCall]
    /\ auth_log = <<>>
    /\ auth_last = "none"

InitTokens ==
    /\ pending_tokens = <<>>
    /\ token_log = [u \in Uuids |-> NoTokenLog]

InitHub ==
    /\ ws_sessions = <<>>
    /\ bcast = IdleBcast

(***************************************************************************)
(* Names (src/database/name.rs): Model::transfer_ownership, one step per   *)
(* statement.  The rows the open store transaction has written are in      *)
(* xfer.writes and the row it has inserted in xfer.rows.                   *)
(***************************************************************************)
MaxTransfers == 2       \* transfer_ownership calls the model makes

NameIds == {"n1", "n2", "n3"}

\* the names table: ka owns two names and kb one; the two timestamps are Options
InitNames ==
    [n \in NameIds |->
        [owner |-> IF n = "n3" THEN "kb" ELSE "ka",
         last_updated |-> {}, last_transfered |-> {}]]

IdleXfer ==
    [pc |-> "idle", name |-> NULL, owner |-> NULL, to |-> NULL, writes |-> <<>>,
     rows |-> <<>>, sent |-> <<>>, calls |-> 0, result |-> "none"]

\* an error return of transfer_ownership: `?` drops the sqlx Transaction, which rolls
\* back; the events already broadcast stay sent
XferRolledBack(err) ==
    [IdleXfer EXCEPT !.sent = xfer.sent, !.calls = xfer.calls, !.result = err]

\* transfer_ownership(self, conn, server, new_owner_address): self is the row of a
\* name as the caller fetched it, and conn.begin() opens the store transaction
XferBegin ==
    /\ xfer.pc = "idle"
    /\ xfer.calls < MaxTransfers
    /\ \E n \in NameIds, new_owner_address \in AllAddresses :
        xfer' = [xfer EXCEPT !.pc = "update", !.name = n, !.owner = names[n].owner,
                             !.to = new_owner_address, !.writes = <<>>,
                             !.rows = <<>>, !.calls = @ + 1, !.result = "none"]
    /\ UNCHANGED <<storeVars, calls, sched, now, chan, authVars, tokenVars, hubVars,
                   senders, conns, gw_last, ws_last, names, wire, patch, offers>>

\* the rows UPDATE names ... WHERE name = $1 would write
RowsOfName(name, owner) == {name}

\* the rows UPDATE names ... WHERE owner = $1 writes, $1 = self.owner
RowsOfOwner(name, owner) == {n \in NameIds : names[n].owner = owner}

\* UPDATE names SET owner = $2, last_updated = NOW(), last_transfered = NOW()
\* WHERE owner = $1 RETURNING *, and fetch_one, which wants a row
XferUpdate ==
    /\ xfer.pc = "update"
    /\ LET matched == RowsOfOwner(xfer.name, xfer.owner)
       IN IF matched = {}
          THEN xfer' = XferRolledBack("RowNotFound")
          ELSE xfer' = [xfer EXCEPT !.pc = "create", !.writes =
                   [n \in matched |->
                       [names[n] EXCEPT !.owner = xfer.to, !.last_updated = {now},
                                        !.last_transfered = {now}]]]
    /\ UNCHANGED <<storeVars, calls, sched, now, chan, authVars, tokenVars, hubVars,
                   senders, conns, gw_last, ws_last, names, wire, patch, offers>>

\* the transactions row of the transfer: amount 0, type name_transfer; its id is the
\* next value of the table's sequence, which a rollback does not give back
NameTransferRow ==
    [id |-> xfer.calls, from |-> xfer.owner, to |-> xfer.to, amount |-> 0,
     transaction_type |-> "name_transfer", name |-> {xfer.name}]

\* Transaction::create(&mut *tx, creation_data), nested in the open transaction: both
\* wallets are fetched (NotFound otherwise), update_balance moves each by 0, the row
\* is inserted, and the nested commit leaves all of it to the outer transaction
XferCreate ==
    /\ xfer.pc = "create"
    /\ IF fetch_by_address(xfer.owner) = {} \/ fetch_by_address(xfer.to) = {}
       THEN xfer' = XferRolledBack("NotFound")
       ELSE xfer' = [xfer EXCEPT !.pc = "broadcast", !.rows = <<NameTransferRow>>]
    /\ UNCHANGED <<storeVars, calls, sched, now, chan, authVars, tokenVars, hubVars,
                   senders, conns, gw_last, ws_last, names, wire, patch, offers>>

\* server.broadcast_event(event).await with the Transaction event of the row the open
\* transaction has inserted; tx.commit() is the statement after it
XferBroadcast ==
    /\ xfer.pc = "broadcast"
    /\ xfer' = [xfer EXCEPT !.pc = "commit", !.sent = @ \o xfer.rows]
    /\ UNCHANGED <<storeVars, calls, sched, now, chan, authVars, tokenVars, hubVars,
                   senders, conns, gw_last, ws_last, names, wire, patch, offers>>

\* tx.commit().await?; Ok(updated_name)
XferCommit ==
    /\ xfer.pc = "commit"
    /\ names' = [n \in NameIds |->
                    IF n \in DOMAIN xfer.writes THEN xfer.writes[n] ELSE names[n]]
    /\ transactions' = transactions \o xfer.rows
    /\ xfer' = [xfer EXCEPT !.pc = "idle", !.result = "Ok"]
    /\ UNCHANGED <<wallets, contracts, subscriptions, calls, sched, now, chan,
                   authVars, tokenVars, hubVars, senders, conns, gw_last, ws_last,
                   wire, patch, offers>>

\* a store error at an await of the open transaction, the commit included: `?`
\* returns it and the transaction rolls back
XferStoreError ==
    /\ xfer.pc \in {"update", "create", "commit"}
    /\ xfer' = XferRolledBack("DbError")
    /\ UNCHANGED <<storeVars, calls, sched, now, chan, authVars, tokenVars, hubVars,
                   senders, conns, gw_last, ws_last, names, wire, patch, offers>>

\* ---- contract_offers: the columns create_contract and patch_contract validate ----

MaxTitle == 64          \* validate_length(&body.title, 1, 64)
MaxDescription == 500   \* validate_length(desc, 0, 500)
InvalidCron == 0        \* a cron_expr that Cron::from_str or find_next_occurrence rejects

\* contract ids come from a serial column; the table has room for two rows
OfferIds == {1, 2}

NoOffers == [id \in OfferIds |-> {}]

\* a string of n characters
Chars(n) == [i \in 1..n |-> "a"]

Titles == {Chars(0), Chars(MaxTitle), Chars(MaxTitle + 1)}
Descriptions == {Chars(MaxDescription), Chars(MaxDescription + 1)}
OfferPrices == {0, 1}
CronExprs == {InvalidCron, EveryMinute}
MaxSubscribers == {-1, 0, 1}

\* ContractCreateRequest; allow_list is left out, no claim about the stored columns
\* reads it
ContractCreateRequests ==
    [title : Titles,
     description : {{}} \cup {{d} : d \in Descriptions},
     price : OfferPrices,
     cron_expr : CronExprs,
     max_subscribers : {{}} \cup {{m} : m \in MaxSubscribers}]

\* UpdateContractRequest, the same columns: title, price and cron_expr are Options,
\* description and max_subscribers are Patches
OfferUpdateRequests ==
    [title : {{}} \cup {{t} : t \in Titles},
     description : {{}, {{}}} \cup {{{d}} : d \in Descriptions},
     price : {{}} \cup {{p} : p \in OfferPrices},
     cron_expr : {{}} \cup {{s} : s \in CronExprs},
     max_subscribers : {{}, {{}}} \cup {{{m}} : m \in MaxSubscribers}]

validate_length(s, min, max) == Len(s) >= min /\ Len(s) <= max

\* validate_cron_expr: Cron::from_str and then find_next_occurrence from Utc::now()
validate_cron_expr(s) == s # InvalidCron

\* validate_body of routes/v1/contracts.rs, as the error it returns
contracts_validate_body(body) ==
    IF ~validate_length(body.title, 1, MaxTitle) THEN "TitleLength"
    ELSE IF \E desc \in body.description : ~validate_length(desc, 0, MaxDescription)
         THEN "InvalidDescription"
    ELSE IF ~validate_cron_expr(body.cron_expr) THEN "InvalidCronExpr"
    ELSE IF body.price <= 0 THEN "InvalidPrice"
    ELSE IF \E n \in body.max_subscribers : n < 0 THEN "InvalidMaxSubscribers"
    ELSE "Ok"

\* validate_body of routes/v1/subs.rs, the module routes/v1/mod.rs registers: the
\* cron expression, the price and max_subscribers; title and description are not read
subs_validate_body(body) ==
    IF ~validate_cron_expr(body.cron_expr) THEN "InvalidCronExpr"
    ELSE IF body.price <= 0 THEN "InvalidPrice"
    ELSE IF \E n \in body.max_subscribers : n < 0 THEN "InvalidMaxSubscribers"
    ELSE "Ok"

\* INSERT INTO contract_offers ... RETURNING *: the next id of the serial column
Inserted(body) ==
    LET free == {id \in OfferIds : offers[id] = {}}
        id == CHOOSE i \in free : \A j \in free : i <= j
    IN  offers' = [offers EXCEPT ![id] = {body}]

\* create_contract of routes/v1/contracts.rs: check_bearer, validate_body, INSERT
contracts_create_contract ==
    /\ \E id \in OfferIds : offers[id] = {}
    /\ \E body \in ContractCreateRequests, session \in BOOLEAN :
        IF session /\ contracts_validate_body(body) = "Ok"
        THEN Inserted(body)
        ELSE UNCHANGED offers
    /\ UNCHANGED <<storeVars, calls, sched, now, chan, authVars, tokenVars, hubVars,
                   senders, conns, gw_last, ws_last, nameVars, wire, patch>>

\* create_contract of routes/v1/subs.rs (POST /api/v1/subs/c): the same with its own
\* validate_body
subs_create_contract ==
    /\ \E id \in OfferIds : offers[id] = {}
    /\ \E body \in ContractCreateRequests, session \in BOOLEAN :
        IF session /\ subs_validate_body(body) = "Ok"
        THEN Inserted(body)
        ELSE UNCHANGED offers
    /\ UNCHANGED <<storeVars, calls, sched, now, chan, authVars, tokenVars, hubVars,
                   senders, conns, gw_last, ws_last, nameVars, wire, patch>>

\* UpdateContractRequest::is_empty on these columns
offer_is_empty(body) ==
    /\ body.title = {}
    /\ body.description = {}
    /\ body.price = {}
    /\ body.cron_expr = {}
    /\ body.max_subscribers = {}

\* the checks patch_contract makes of the fields of the body, in its order, as the
\* error it returns; a cron_expr equal to the stored one is not validated again
OfferPatchError(c, body) ==
    IF \E title \in body.title : ~validate_length(title, 1, MaxTitle) THEN "TitleLength"
    ELSE IF \E o \in body.description : \E desc \in o :
                ~validate_length(desc, 0, MaxDescription)
         THEN "InvalidDescription"
    ELSE IF \E price \in body.price : ~(price > 0) THEN "InvalidPrice"
    ELSE IF \E s \in body.cron_expr : s # c.cron_expr /\ ~validate_cron_expr(s)
         THEN "InvalidCronExpr"
    ELSE IF \E o \in body.max_subscribers : \E max_subs \in o : ~(max_subs > 0)
         THEN "InvalidMaxSubscribers"
    ELSE "Ok"

\* contract_info after the assignments of patch_contract, which the UPDATE writes
PatchedOffer(c, body) ==
    [title |-> IF body.title = {} THEN c.title ELSE CHOOSE t \in body.title : TRUE,
     description |-> IF body.description = {} THEN c.description
                     ELSE CHOOSE o \in body.description : TRUE,
     price |-> IF body.price = {} THEN c.price ELSE CHOOSE p \in body.price : TRUE,
     cron_expr |-> IF body.cron_expr = {} THEN c.cron_expr
                   ELSE CHOOSE s \in body.cron_expr : TRUE,
     max_subscribers |-> IF body.max_subscribers = {} THEN c.max_subscribers
                         ELSE CHOOSE o \in body.max_subscribers : TRUE]

\* patch_contract on these columns: is_empty, the SELECT ... FOR UPDATE, the owner's
\* session, the checks, the UPDATE and the commit
patch_contract_columns ==
    /\ \E id \in OfferIds, body \in OfferUpdateRequests, owner \in BOOLEAN :
        IF /\ ~offer_is_empty(body)
           /\ offers[id] # {}
           /\ owner
           /\ \A c \in offers[id] : OfferPatchError(c, body) = "Ok"
        THEN offers' = [offers EXCEPT ![id] = {PatchedOffer(c, body) : c \in @}]
        ELSE UNCHANGED offers
    /\ UNCHANGED <<storeVars, calls, sched, now, chan, authVars, tokenVars, hubVars,
                   senders, conns, gw_last, ws_last, nameVars, wire, patch>>

\* main: new_sub_manager returned the one Sender; no gateway request was made yet
InitLink ==
    /\ senders = TRUE
    /\ conns = <<>>
    /\ gw_last = NoRequest
    /\ ws_last = NoLogin
    /\ names = InitNames
    /\ xfer = IdleXfer
    /\ wire = <<>>
    /\ patch = IdlePatch
    /\ offers = NoOffers

Init == InitStoreEmpty /\ InitTasks /\ InitAuth /\ InitTokens /\ InitHub /\ InitLink

\* the ledger primitive under concurrent callers
NextLedger ==
    \E p \in Procs :
        \/ CreateBegin(p)
        \/ CreateFetchSender(p)
        \/ CreateFetchRecipient(p)
        \/ CreateDebit(p)
        \/ CreateCredit(p)
        \/ CreateInsert(p)
        \/ CreateCommit(p)
        \/ CreateStoreError(p)

SpecLedger == Init /\ [][NextLedger]_vars

\* the scheduler over a store holding one contract of wallet 1 and two subscriptions
\* to it: subscription 1 paid by wallet 2, subscription 2 paid by the owner
InitSubs ==
    /\ InitWallets
    /\ transactions = <<>>
    /\ \E status \in ContractStatuses, price \in {1, InitBalance + 1},
          allow_list \in {{}, {{"ka"}}, {{"kb"}}} :
          contracts = [c \in ContractIds |->
              [owner_id |-> 1, status |-> status, price |-> price,
               cron_expr |-> EveryMinute, allow_list |-> allow_list]]
    /\ \E st1 \in SubStatuses, st2 \in {"active", "canceled"} :
          subscriptions = [s \in SubIds |->
              IF s = 1
              THEN [contract_id |-> 1, wallet_id |-> 2, status |-> st1,
                    lapsed_at |-> IF st1 = "canceled" THEN {} ELSE {0}]
              ELSE [contract_id |-> 1, wallet_id |-> 1, status |-> st2,
                    lapsed_at |-> IF st2 = "canceled" THEN {} ELSE {1}]]
    /\ InitTasks /\ InitAuth /\ InitTokens /\ InitHub /\ InitLink

NextSubs ==
    \/ SchedFetch
    \/ SchedFetchFailed
    \/ SchedTimerSub
    \/ SchedTimerIdle
    \/ SchedSignal
    \/ SendNotif
    \/ DropSenders
    \/ SchedCancel
    \/ SchedContinue
    \/ SchedDebit
    \/ SchedCredit
    \/ SchedInsert
    \/ SchedUpdate
    \/ SchedCommit
    \/ SchedStoreError
    \/ SchedRestart
    \/ Tick

SpecSubs == InitSubs /\ [][NextSubs]_vars

\* The scheduler alone with a store that answers every statement and no endpoint at
\* work: the task is scheduled again and again, and the clock of the model stops at
\* MaxTime, so some step of the task is taken whenever one can be
NextLive ==
    \/ SchedFetch
    \/ SchedTimerSub
    \/ SchedTimerIdle
    \/ SchedCancel
    \/ SchedContinue
    \/ SchedDebit
    \/ SchedCredit
    \/ SchedInsert
    \/ SchedUpdate
    \/ SchedCommit
    \/ Tick

SpecLive == InitSubs /\ [][NextLive]_vars /\ WF_vars(NextLive)

\* The scheduler next to the endpoint that rewrites the contract: one open contract
\* with two active subscriptions, which the updates of the contract take through the
\* statuses, prices and allow lists
InitPatch ==
    /\ InitWallets
    /\ transactions = <<>>
    /\ contracts = [c \in ContractIds |->
          [owner_id |-> 1, status |-> "open", price |-> 1,
           cron_expr |-> EveryMinute, allow_list |-> {}]]
    /\ subscriptions = [s \in SubIds |->
          [contract_id |-> 1, wallet_id |-> 3 - s, status |-> "active",
           lapsed_at |-> {s - 1}]]
    /\ InitTasks /\ InitAuth /\ InitTokens /\ InitHub /\ InitLink

NextPatch ==
    \/ SchedFetch
    \/ SchedTimerSub
    \/ SchedTimerIdle
    \/ SchedSignal
    \/ PatchContract
    \/ SchedCancel
    \/ SchedContinue
    \/ SchedDebit
    \/ SchedCredit
    \/ SchedInsert
    \/ SchedUpdate
    \/ SchedCommit
    \/ Tick

SpecPatch == InitPatch /\ [][NextPatch]_vars

NextTokens == ObtainToken \/ TokenExpire \/ UseToken \/ TokenTick

SpecTokens == Init /\ [][NextTokens]_vars

NextAuth ==
    \/ AuthRegister
    \/ AuthRevoke
    \/ AuthVacuum
    \/ AuthTick
    \/ \E c \in AuthCallers : AuthGet(c) \/ AuthAnswer(c) \/ AuthEvictBegin(c)

SpecAuth == Init /\ [][NextAuth]_vars

NextHub ==
    \/ HubInsert
    \/ HubLogin
    \/ HubLogout
    \/ HubSubscribe
    \/ HubUnsubscribe
    \/ HubCleanup
    \/ BroadcastEvent
    \/ BroadcastDeliver

SpecHub == Init /\ [][NextHub]_vars

\* the state gateway leaves after the upgrade of the first token: its session in the
\* hub, its connection with both tasks spawned, the token taken
InitConn ==
    /\ InitStoreEmpty /\ InitTasks /\ InitAuth /\ bcast = IdleBcast /\ senders = TRUE
    /\ \E data \in TokenDatas :
        /\ pending_tokens = <<>>
        /\ token_log = [u \in Uuids |->
               IF u = "u1"
               THEN [issued |-> TRUE, data |-> {data}, at |-> {0}, timer |-> TRUE,
                     uses |-> <<[ok |-> TRUE, token |-> {data}]>>]
               ELSE NoTokenLog]
        /\ ws_sessions = [u \in {"u1"} |-> NewSession(data)]
    /\ conns = [u \in {"u1"} |-> NewConn]
    /\ gw_last = [token |-> "u1", result |-> "Ok"]
    /\ ws_last = NoLogin
    /\ names = InitNames
    /\ xfer = IdleXfer
    /\ wire = <<>>
    /\ patch = IdlePatch
    /\ offers = NoOffers

\* one connection of the gateway and its two tasks; one clock tick is 5 s
NextConn ==
    \/ \E uuid \in Uuids :
         \/ Heartbeat(uuid)
         \/ ReadFrame(uuid)
         \/ StreamEnd(uuid)
         \/ BroadcastSendFailed(uuid)
         \/ LinkDrop(uuid)
    \/ ConnTick

SpecConn == InitConn /\ [][NextConn]_vars

\* the upgrade: tokens and gateway requests; one clock tick is 10 s
NextUpgrade == NextTokens \/ Gateway \/ HubCleanup

SpecUpgrade == Init /\ [][NextUpgrade]_vars

\* the hub under the login and logout handlers: sessions come, log in, log out and
\* go while events are broadcast
NextWs ==
    \/ HubInsert
    \/ perform_login
    \/ perform_logout
    \/ HubCleanup
    \/ BroadcastEvent
    \/ BroadcastDeliver

\* two connected sessions, each with the data of its token and either the default
\* subscriptions or those and the two it may have subscribed to since
InitWs ==
    /\ InitStoreEmpty /\ InitTasks /\ InitAuth /\ InitTokens /\ InitLink
    /\ bcast = IdleBcast
    /\ \E data \in [Uuids -> TokenDatas],
          subscribed \in [Uuids -> {{}, {"transactions", "names"}}] :
          ws_sessions = [u \in Uuids |->
              [NewSession(data[u]) EXCEPT !.subscriptions = @ \cup subscribed[u]]]

SpecWs == InitWs /\ [][NextWs]_vars

\* the way of a private key into the hub: POST /ws/start issues a token, the gateway
\* redeems it and inserts the session, and the session logs in and out
NextStart ==
    \/ setup_ws
    \/ Gateway
    \/ perform_login
    \/ perform_logout

SpecStart == Init /\ [][NextStart]_vars

\* name transfers, one caller at a time, over the wallets ka and kb
NextNames ==
    \/ XferBegin
    \/ XferUpdate
    \/ XferCreate
    \/ XferBroadcast
    \/ XferCommit
    \/ XferStoreError

SpecNames == Init /\ [][NextNames]_vars

\* broadcast_event and broadcast, called while the wires have room
BoundedBroadcastEvent == WireRoom /\ BroadcastEvent
BoundedBroadcast == WireRoom /\ Broadcast

\* the gateway accepting connections while events and messages are broadcast
NextHello ==
    \/ GatewayInsert
    \/ GatewayHello
    \/ BoundedBroadcastEvent
    \/ BoundedBroadcast
    \/ BroadcastDeliver

SpecHello == Init /\ [][NextHello]_vars

\* two connected sessions that have had their hello frame, each with the data of its
\* token and either the default subscriptions or those and the two it may have
\* subscribed to since
InitBcast ==
    /\ InitStoreEmpty /\ InitTasks /\ InitAuth /\ InitTokens
    /\ senders = TRUE /\ conns = <<>> /\ gw_last = NoRequest /\ ws_last = NoLogin
    /\ names = InitNames /\ xfer = IdleXfer
    /\ bcast = IdleBcast
    /\ wire = [u \in Uuids |-> <<"hello">>]
    /\ patch = IdlePatch
    /\ offers = NoOffers
    /\ \E data \in [Uuids -> TokenDatas],
          subscribed \in [Uuids -> {{}, {"transactions", "names"}}] :
          ws_sessions = [u \in Uuids |->
              [NewSession(data[u]) EXCEPT !.subscriptions = @ \cup subscribed[u]]]

\* the two broadcasts alone: no connection comes or goes but by a failed send
NextBcast ==
    \/ BoundedBroadcastEvent
    \/ BoundedBroadcast
    \/ BroadcastDeliver

SpecBcast == InitBcast /\ [][NextBcast]_vars

\* PATCH requests one after the other, their signals left in the channel
NextRequest ==
    \/ patch_contract
    \/ patch_notify

SpecRequest == InitPatch /\ [][NextRequest]_vars

Next == NextLedger \/ NextSubs \/ NextTokens \/ NextAuth \/ NextHub

Spec == Init /\ [][Next]_vars

(***************************************************************************)
(* The claims.                                                             *)
(***************************************************************************)
InitialSupply == InitBalance * Cardinality(WalletIds)

\* C1: under any interleaving of Transfer calls, successful or failed, the sum of all
\* wallet balances is the same in every committed state, and no committed balance is
\* negative.
C1_Conservation ==
    /\ TotalBalance = InitialSupply
    /\ \A i \in WalletIds : wallets[i].balance >= 0

\* two transfers are committed, a third call has failed, and money has moved
C1_Witness ==
    /\ Len(transactions) >= 2
    /\ \E p \in Procs : calls[p].result = "InsufficientFunds"
    /\ wallets[1].balance # InitBalance

\* C2: a step that ends a Transfer call with an error (sender or recipient not found,
\* balance check violated, store error) changes no wallet row (balance, total_in,
\* total_out) and inserts no transactions row.
C2_FailureIsNoOp ==
    [][\A p \in Procs :
          (calls[p].pc # "idle" /\ calls'[p].pc = "idle" /\ calls'[p].result # "ok")
              => (wallets' = wallets /\ transactions' = transactions)]_vars

\* one call has failed on the balance check and another on a store error
C2_Witness ==
    /\ calls["p1"].result = "InsufficientFunds"
    /\ calls["p2"].result = "StoreError"

\* the scheduler's step returns from continue_sub with err
ContinueFailedWith(errs) ==
    /\ sched.pc \in {"continue", "debit"}
    /\ sched'.pc = "fetch"
    /\ sched'.result \in errs

\* C3: when the renewal of an active subscription on an open or closed contract fails
\* with InsufficientFunds or Unauthorized, the subscription ends canceled with
\* lapsed_at NULL, and no wallet row changes and no transactions row is inserted.
C3_FailedRenewalCancels ==
    [][ContinueFailedWith({"InsufficientFunds", "Unauthorized"})
          => /\ subscriptions'[Info.subscription_id].status = "canceled"
             /\ subscriptions'[Info.subscription_id].lapsed_at = {}
             /\ wallets' = wallets
             /\ transactions' = transactions]_vars

\* the scheduler's step commits a renewal
RenewalCommits == sched.pc = "commit" /\ sched'.pc = "fetch" /\ sched'.result = "Renewed"

\* the row a renewal of info is to append, by the claim
ExpectedRenewalRow(info) ==
    [from |-> info.contractee_addr,
     to |-> wallets[info.contractor_id].address,
     amount |-> info.price,
     transaction_type |-> "transfer",
     metadata |-> SubMetadata(info.subscription_id)]

\* C4 as stated: a successful renewal decreases the payer's balance by exactly price,
\* increases the owner's balance by exactly price, and appends exactly one
\* transactions row from payer to owner of amount price, type transfer and metadata
\* sub_id=<subscription_id>.
C4_RenewalMovesPrice ==
    [][RenewalCommits
          => /\ wallets'[Info.contractee_id].balance =
                    wallets[Info.contractee_id].balance - Info.price
             /\ wallets'[Info.contractor_id].balance =
                    wallets[Info.contractor_id].balance + Info.price
             /\ transactions' = Append(transactions, ExpectedRenewalRow(Info))]_vars

\* C4 amended: the row is appended in every case; the balances move by price when the
\* payer and the owner are different wallets, and the balance is unchanged when the
\* payer is the owner; no other wallet's balance changes.
C4_RenewalMovesPriceBetweenWallets ==
    [][RenewalCommits
          => /\ transactions' = Append(transactions, ExpectedRenewalRow(Info))
             /\ \A i \in WalletIds :
                  wallets'[i].balance =
                      wallets[i].balance
                      - (IF i = Info.contractee_id THEN Info.price ELSE 0)
                      + (IF i = Info.contractor_id THEN Info.price ELSE 0)]_vars

\* subscription 1 (payer wallet 2, owner wallet 1) has been renewed
C4_Witness ==
    /\ sched.result = "Renewed"
    /\ Len(transactions) >= 1
    /\ transactions[1].from = "kb"
    /\ transactions[1].to = "ka"
    /\ wallets[2].balance = InitBalance - 1

\* the transactions rows of the renewals of subscription s, in the next state
RenewalsOf(rows, s) == {i \in 1..Len(rows) : rows[i].metadata = SubMetadata(s)}

\* lapsed_at of subscription s moves to another time in this step
Advanced(s) ==
    /\ subscriptions'[s].lapsed_at # subscriptions[s].lapsed_at
    /\ subscriptions'[s].lapsed_at # {}

\* the wallets after the debit of payer and the credit of owner by price
DebitedAndCredited(payer, owner, price) ==
    LET w1 == [wallets EXCEPT ![payer] = DebitRow(@, price, payer)]
    IN [w1 EXCEPT ![owner] = CreditRow(w1[owner], price, owner)]

\* C5: the four writes of a renewal are all-or-nothing in the committed state, also
\* when a store error or a restart of the scheduler interrupts continue_sub at any
\* step: a step that changes a wallet, appends a row or advances a lapsed_at does all
\* four for one subscription, and every lapse a subscription has passed is charged
\* exactly once.
C5_RenewalAtomic ==
    [][/\ (wallets' # wallets \/ transactions' # transactions
              \/ \E s \in SubIds : Advanced(s))
          => \E s \in SubIds :
                LET sub == subscriptions[s]
                    c == contracts[sub.contract_id]
                IN /\ Advanced(s)
                   /\ \A o \in SubIds \ {s} : subscriptions'[o] = subscriptions[o]
                   /\ \A t \in sub.lapsed_at :
                        subscriptions'[s].lapsed_at = {find_next_occurrence(c.cron_expr, t)}
                   /\ Len(transactions') = Len(transactions) + 1
                   /\ transactions'[Len(transactions')].metadata = SubMetadata(s)
                   /\ wallets' = DebitedAndCredited(sub.wallet_id, c.owner_id, c.price)
       /\ \A s \in SubIds : \A t \in subscriptions'[s].lapsed_at :
            Cardinality(RenewalsOf(transactions', s)) = t \div EveryMinute]_vars

\* a store error interrupted a renewal inside its transaction, nothing of it is
\* visible, and the scheduler has run it again up to the commit
C5_Witness ==
    /\ sched.result = "DbError"
    /\ sched.pc = "commit"
    /\ transactions = <<>>
    /\ \A s \in SubIds : \A t \in subscriptions[s].lapsed_at : t < EveryMinute

\* the use_token calls on uuid that succeeded, by position
OkUses(uuid) ==
    {i \in 1..Len(token_log[uuid].uses) : token_log[uuid].uses[i].ok}

\* C6: for every token obtain_token returned, use_token succeeds at most once, the
\* success is the first call on the uuid (unless the token expired first), it returns
\* the token data given to obtain_token, and every other or later call fails with
\* TokenNotFound; a token no call has used and whose expiry task has not run is pending.
C6_TokenTakenOnce ==
    \A u \in Uuids :
        LET log == token_log[u]
        IN log.issued =>
            /\ Cardinality(OkUses(u)) <= 1
            /\ \A i \in OkUses(u) : i = 1 /\ log.uses[i].token = log.data
            /\ (log.uses # <<>> /\ ~log.uses[1].ok) => ~log.timer
            /\ log.uses # <<>> => u \notin DOMAIN pending_tokens
            /\ (log.uses = <<>> /\ log.timer)
                  => (u \in DOMAIN pending_tokens /\ {pending_tokens[u]} = log.data)

\* a token was used twice before it expired: the first call got it, the second failed
C6_Witness ==
    \E u \in Uuids :
        /\ token_log[u].issued /\ token_log[u].timer
        /\ Len(token_log[u].uses) = 2
        /\ token_log[u].uses[1].ok
        /\ ~token_log[u].uses[2].ok

\* the call of caller c waits for the write lock of a shard into which a Ref is held
Blocked(c) == auth_calls[c].pc = "removing" /\ ShardHeld(auth_calls[c].id)

\* the session of uuid id is registered and was neither revoked nor vacuumed
Untouched(id) ==
    id \in DOMAIN auth_log /\ ~auth_log[id].revoked /\ ~auth_log[id].vacuumed

\* C7: for a registered session that is never revoked (and that no vacuum removed),
\* is_authed_addr(uuid, a) returns Some(a == addr) at every time before expires_at
\* and None at every time from expires_at on: each call returns, and with that result.
C7_SessionTtl ==
    [][\A c \in AuthCallers :
          LET call == auth_calls[c]
          IN (call.op = "is_authed_addr" /\ Untouched(call.id))
              => /\ ~Blocked(c)
                 /\ (auth_calls'[c].pc = "idle" /\ call.pc # "idle")
                       => auth_calls'[c].result =
                              IF now >= auth_log[call.id].exp THEN "None"
                              ELSE IF call.addr = auth_log[call.id].addr
                                   THEN "Some(true)" ELSE "Some(false)"]_vars

\* C8: a call of is_authed_addr or session_exists on an expired entry completes with
\* None / false and the entry removed; the shard lock taken for the lookup is not held
\* when the removal is attempted.
C8_EvictionCompletes ==
    \A c \in AuthCallers :
        auth_calls[c].pc = "removing" => ~ShardHeld(auth_calls[c].id)

\* C9: vacuum removes every session whose expires_at is at or before the current time
\* and keeps every session whose expires_at is later.
C9_VacuumSweepsExpired ==
    [][auth_last' = "vacuum"
          => auth_sessions' =
                 SessionsRemoved({u \in DOMAIN auth_sessions : auth_sessions[u].exp <= now})]_vars

\* the step is a broadcast_event call with a Transaction or a Name event
BroadcastBegins ==
    /\ bcast.state \in {"idle", "panicked"}
    /\ bcast' # bcast
    /\ bcast'.event.kind \in {"transaction", "name"}

\* the table of 4.D: session S is sent event e
Table(S, e) ==
    IF e.kind = "transaction"
    THEN \/ "transactions" \in S.subscriptions
         \/ /\ S.address # "guest"
            /\ S.address \in e.from \cup {e.to}
            /\ "ownTransactions" \in S.subscriptions
    ELSE \/ "names" \in S.subscriptions
         \/ /\ S.address # "guest"
            /\ S.address = e.owner
            /\ "ownNames" \in S.subscriptions

\* C10: broadcast_event sends a Transaction or Name event to a connected session iff
\* the table of 4.D selects the session, and each selected session gets it exactly
\* once per call.
C10_BroadcastFilter ==
    [][BroadcastBegins
          => /\ DOMAIN bcast'.futures = DOMAIN ws_sessions
             /\ \A u \in DOMAIN ws_sessions :
                  bcast'.futures[u] =
                      IF Table(ws_sessions[u], bcast'.event) THEN 1 ELSE 0
             /\ bcast'.pending =
                  {u \in DOMAIN ws_sessions : Table(ws_sessions[u], bcast'.event)}]_vars

\* a Transaction event from ka is being sent to the session of its sender, selected by
\* OwnTransactions alone, and not to a guest session that holds OwnTransactions too
C10_Witness ==
    /\ bcast.state = "sending"
    /\ bcast.event.kind = "transaction"
    /\ bcast.event.from = {"ka"}
    /\ bcast.event.to = "kb"
    /\ \E u \in bcast.pending, v \in DOMAIN bcast.futures :
        /\ u \in DOMAIN ws_sessions /\ v \in DOMAIN ws_sessions
        /\ ws_sessions[u].address = "ka"
        /\ "transactions" \notin ws_sessions[u].subscriptions
        /\ bcast.futures[v] = 0
        /\ ws_sessions[v].address = "guest"
        /\ "ownTransactions" \in ws_sessions[v].subscriptions

\* the step is a broadcast_event call with a Block event
BlockBroadcastBegins ==
    /\ bcast.state \in {"idle", "panicked"}
    /\ bcast' # bcast
    /\ bcast'.event.kind = "block"

\* the table of 4.D for a Block event: session S is sent event e
BlockTable(S, e) ==
    \/ "blocks" \in S.subscriptions
    \/ /\ S.address # "guest"
       /\ S.address = e.miner
       /\ "ownBlocks" \in S.subscriptions

\* C11: broadcast_event sends a Block event to a connected session iff Blocks is in
\* its subscriptions or it is the non-guest session of the miner with OwnBlocks, and
\* the call returns normally.
C11_BlockBroadcast ==
    [][BlockBroadcastBegins
          => /\ bcast'.state # "panicked"
             /\ bcast'.pending =
                  {u \in DOMAIN ws_sessions : BlockTable(ws_sessions[u], bcast'.event)}]_vars

\* C12: after every successful renewal commit the scheduler broadcasts a Transaction
\* event for the inserted transactions row through the hub: when the iteration that
\* committed the renewal is over, broadcast_event has been called with that row.
C12_RenewalBroadcast ==
    [][RenewalCommits
          => LET row == transactions'[Len(transactions')]
             IN /\ bcast'.event.kind = "transaction"
                /\ bcast'.event.from = {row.from}
                /\ bcast'.event.to = row.to]_vars

\* the scheduler is in one of its two waits (the select! of sub_manager)
Waiting == sched.pc \in {"waitSub", "waitIdle"}

\* C13: the signals sent while the scheduler waits wake it once and are all taken by
\* that wake: a step that takes signals out of the channel is a wake from a wait and
\* leaves the channel empty, so none of them is left to end a later wait; the only
\* other change of the channel is one more signal sent.
C13_SignalsCoalesce ==
    [][chan' # chan
          => \/ chan' = chan + 1 /\ sched' = sched
             \/ /\ Waiting /\ chan > 0
                /\ sched'.pc = "fetch"
                /\ sched'.drained = chan
                /\ chan' = 0]_vars

\* two signals were sent during one wait, and the wake took both
C13_Witness == sched.drained >= 2 /\ chan = 0 /\ sched.pc = "fetch"

\* the step is an iteration of the heartbeat task of connection u: it either schedules
\* its next tick or leaves the loop
HeartbeatRan(u) ==
    /\ conns[u].hb = "ticking"
    /\ u \in DOMAIN conns'
    /\ \/ conns'[u].next_tick # conns[u].next_tick
       \/ conns'[u].hb = "exited"

\* C14: at a heartbeat tick at which now - last_pong_at exceeds 10 s (hence at the
\* first such tick) the session is removed from the hub's session map, no close frame
\* is sent, the heartbeat task ends, and the session count no longer includes it.
C14_HeartbeatTimeout ==
    [][\A u \in DOMAIN conns :
          (HeartbeatRan(u) /\ now - conns[u].alive > CLIENT_TIMEOUT)
              => /\ u \notin DOMAIN ws_sessions'
                 /\ conns'[u].close_sent = conns[u].close_sent
                 /\ conns'[u].hb = "exited"
                 /\ Cardinality(DOMAIN ws_sessions') =
                        Cardinality((DOMAIN ws_sessions) \ {u})]_vars

\* the peer is still connected but sent no pong: the heartbeat task timed out, removed
\* the session through the closure and sent no close frame
C14_Witness ==
    \E u \in DOMAIN conns :
        /\ conns[u].hb = "exited" /\ conns[u].link = "up" /\ conns[u].rd = "reading"
        /\ conns[u].closed /\ conns[u].cleanups = 1 /\ ~conns[u].close_sent
        /\ conns[u].alive = 0
        /\ u \notin DOMAIN ws_sessions

\* C15: for each connection the cleanup of its hub session runs exactly once: every
\* call of the hub's cleanup_session for it went through the compare-and-swap on the
\* closed flag (so there is at most one, and the flag is set), and a connection whose
\* read task has ended has had its cleanup.
C15_CleanupOnce ==
    \A u \in DOMAIN conns :
        /\ conns[u].cleanups <= 1
        /\ conns[u].cleanups = 1 <=> conns[u].closed
        /\ conns[u].rd = "exited" => conns[u].cleanups = 1

\* C16: when either task of a connection has exited, the other one stops too: after
\* the heartbeat task left its loop no further inbound frame is read, and after the
\* read task ended no further heartbeat iteration (ping, keepalive) runs.
C16_TasksStopTogether ==
    [][\A u \in DOMAIN conns :
          /\ conns[u].hb = "exited" => conns'[u].reads = conns[u].reads
          /\ conns[u].rd = "exited" => conns'[u].next_tick = conns[u].next_tick]_vars

\* the token of uuid was obtained and no use_token call was made on it
Unused(u) == token_log[u].issued /\ token_log[u].uses = <<>>

\* C17: a token that is not used within 30 seconds of obtain_token is removed from the
\* pending-token map and use_token fails on it from then on; an unused token is in
\* the map, hence usable, at every time before the 30 seconds have elapsed.
C17_TokenExpiry ==
    \A u \in Uuids : \A t \in token_log[u].at :
        /\ (Unused(u) /\ now < t + TOKEN_EXPIRATION)
              => (u \in DOMAIN pending_tokens /\ token_log[u].timer)
        /\ (token_log[u].issued /\ now > t + TOKEN_EXPIRATION)
              => (u \notin DOMAIN pending_tokens /\ ~token_log[u].timer)
        /\ (token_log[u].issued /\ ~token_log[u].timer)
              => /\ now >= t + TOKEN_EXPIRATION
                 /\ u \notin DOMAIN pending_tokens
                 /\ \A i \in 2..Len(token_log[u].uses) : ~token_log[u].uses[i].ok

\* a token ran out unused, and the use_token call made on it afterwards failed
C17_Witness ==
    \E u \in Uuids :
        /\ token_log[u].issued /\ ~token_log[u].timer
        /\ Len(token_log[u].uses) = 1
        /\ ~token_log[u].uses[1].ok
        /\ u \notin DOMAIN pending_tokens
        /\ \A t \in token_log[u].at : now > t + TOKEN_EXPIRATION

\* the step is a gateway request that was answered with an error
Rejected == gw_last' # gw_last /\ gw_last'.result # "Ok"

\* C18: the gateway inserts a session only after use_token succeeded for the token of
\* the path: a rejected request (malformed, unknown, expired or used token) inserts
\* no session; a step that inserts the session of uuid is a request that took the
\* pending token of uuid; and no token has had more than one session inserted.
C18_SessionNeedsToken ==
    [][/\ Rejected => (ws_sessions' = ws_sessions /\ conns' = conns)
       /\ \A u \in (DOMAIN ws_sessions') \ (DOMAIN ws_sessions) :
            /\ gw_last' = [token |-> u, result |-> "Ok"]
            /\ u \in DOMAIN pending_tokens
            /\ u \notin DOMAIN pending_tokens'
            /\ ws_sessions'[u] = NewSession(pending_tokens[u])
       /\ \A u \in DOMAIN conns' :
            /\ conns'[u].opened <= 1
            /\ OkUses(u)' # {}]_vars

\* the token of a session that is connected was presented again and rejected
C18_Witness ==
    \E u \in DOMAIN ws_sessions :
        /\ u \in DOMAIN conns
        /\ conns[u].opened = 1
        /\ gw_last = [token |-> u, result |-> "InvalidWebsocketToken"]

ClosedWake ==
    /\ Waiting
    /\ ~senders /\ chan = 0
    /\ \A t \in sched.timer : t > now
    /\ sched' # sched
    /\ sched'.result # "Restarted"

\* C20: when the notification channel is closed (every sender dropped), the scheduler
\* loop exits on its next wake and does not run another iteration: the wake on the
\* closed channel does not take the scheduler back to the fetch at the top of its loop.
C20_ClosedChannelExits ==
    [][ClosedWake => sched'.pc # "fetch"]_vars

\* a perform_login call has just answered a login that fails: its key did not verify,
\* or its uuid is not in the hub
FailedLogin ==
    /\ ws_last' # ws_last /\ ws_last'.op = "login"
    /\ ~ws_last'.verified \/ ws_last'.uuid \notin DOMAIN ws_sessions

\* C21: a WebSocket login whose private key fails verification, or that is issued for
\* a session uuid no longer present in the hub, is answered with ok = true,
\* is_guest = true and no address, and leaves the address and the private key of
\* every hub session unchanged.
C21_FailedLoginIsGuest ==
    [][FailedLogin =>
          /\ ws_last'.ok /\ ws_last'.is_guest /\ ws_last'.address = {}
          /\ DOMAIN ws_sessions' = DOMAIN ws_sessions
          /\ \A u \in DOMAIN ws_sessions :
                /\ ws_sessions'[u].address = ws_sessions[u].address
                /\ ws_sessions'[u].private_key = ws_sessions[u].private_key]_vars

\* a perform_logout call has just reset a session of the hub
LogoutAnswered ==
    /\ ws_last'.op = "logout" /\ ws_last'.ok
    /\ ws_last' # ws_last \/ ws_sessions' # ws_sessions
    /\ DOMAIN ws_sessions' = DOMAIN ws_sessions
    /\ bcast' = bcast

OnlySubscriptionsOf(uuid, before, after) ==
    /\ DOMAIN after = DOMAIN before
    /\ \A u \in DOMAIN before :
          IF u = uuid
          THEN after[u] = [before[u] EXCEPT !.subscriptions = after[u].subscriptions]
          ELSE after[u] = before[u]

Idempotent ==
    \A uuid \in Uuids, kind \in SubscriptionKinds :
        LET once == subscribe_to_event(ws_sessions, uuid, kind)
            gone == unsubscribe_from_event(ws_sessions, uuid, kind)
        IN /\ subscribe_to_event(once, uuid, kind) = once
           /\ OnlySubscriptionsOf(uuid, ws_sessions, once)
           /\ OnlySubscriptionsOf(uuid, ws_sessions, gone)
           /\ uuid \notin DOMAIN ws_sessions => once = ws_sessions /\ gone = ws_sessions
           /\ uuid \in DOMAIN ws_sessions =>
                 /\ once[uuid].subscriptions = ws_sessions[uuid].subscriptions \cup {kind}
                 /\ kind \notin ws_sessions[uuid].subscriptions => gone = ws_sessions

\* C23: a newly inserted hub session has exactly the subscription set
\* {OwnTransactions, Blocks}; subscribe_to_event applied twice leaves the same set as
\* applied once, unsubscribe_from_event of a kind not in the set leaves the set
\* unchanged, and both change only the subscription set of the addressed session
\* (nothing when the uuid is not in the hub).
C23_SubscriptionSets ==
    /\ []Idempotent
    /\ [][\A u \in DOMAIN ws_sessions' \ DOMAIN ws_sessions :
            ws_sessions'[u].subscriptions = {"ownTransactions", "blocks"}]_vars

\* one session has subscribed to Transactions and dropped OwnTransactions while
\* another, inserted since, has the default set
C23_Witness ==
    /\ \E u \in DOMAIN ws_sessions :
          /\ "transactions" \in ws_sessions[u].subscriptions
          /\ "ownTransactions" \notin ws_sessions[u].subscriptions
    /\ \E u \in DOMAIN ws_sessions :
          ws_sessions[u].subscriptions = {"ownTransactions", "blocks"}

\* C24: contract updates are three-valued: a field absent from the PATCH body
\* deserializes to Patch::None and leaves the stored field unchanged, an explicit null
\* deserializes to Patch::Null and clears the nullable field, and a value deserializes
\* to Patch::Some(value) and sets the field to that value.
C24_ThreeValuedPatch ==
    \A id \in ContractIds, json \in JsonBodies :
        LET body == from_value(json)
            row == PatchedContract(contracts[id], body)
        IN IF "allow_list" \notin DOMAIN json
           THEN body.allow_list = {} /\ row.allow_list = contracts[id].allow_list
           ELSE IF json.allow_list = <<>>
           THEN body.allow_list = {{}} /\ row.allow_list = {}
           ELSE /\ body.allow_list = {{json.allow_list[1]}}
                /\ row.allow_list = {json.allow_list[1]}

\* the contract carries an allow list a PATCH has set, and a status and a price one
\* has changed
C24_Witness ==
    \E id \in ContractIds :
        /\ contracts[id].allow_list = {{"ka"}}
        /\ contracts[id].status = "canceled"
        /\ contracts[id].price = InitBalance + 1

\* C25: every subscription with a non-NULL lapsed_at is, once that time is reached
\* and given that the store stays available and the scheduler task is scheduled
\* fairly, eventually either renewed (lapsed_at advanced) or canceled (lapsed_at NULL):
\* no due subscription waits forever.
C25_DueIsProcessed ==
    \A s \in SubIds : \A t \in 0..MaxTime :
        (subscriptions[s].lapsed_at = {t} /\ now >= t)
            ~> (subscriptions[s].lapsed_at # {t})

\* C26: under any interleaving of patch_contract with the scheduler, no renewal
\* commits a debit for a contract whose committed status is canceled at the moment
\* the renewal commits, and the amount debited equals the contract's committed price
\* at that moment.
C26_RenewalSeesContract ==
    [][RenewalCommits =>
          LET c == contracts[Info.contract_id]
              payer == Info.contractee_id
          IN /\ c.status # "canceled"
             /\ transactions'[Len(transactions')].amount = c.price
             /\ payer # Info.contractor_id =>
                    wallets'[payer].balance = wallets[payer].balance - c.price]_vars

\* C27: a successful renewal increases the payer wallet's total_out by exactly price
\* and the contract owner's wallet total_in by exactly price, and leaves the payer's
\* total_in and the owner's total_out unchanged (payer and owner different wallets).
C27_RenewalTotals ==
    [][(RenewalCommits /\ Info.contractee_id # Info.contractor_id) =>
          LET payer == Info.contractee_id
              owner == Info.contractor_id
          IN /\ wallets'[payer].total_out = wallets[payer].total_out + Info.price
             /\ wallets'[owner].total_in = wallets[owner].total_in + Info.price
             /\ wallets'[payer].total_in = wallets[payer].total_in
             /\ wallets'[owner].total_out = wallets[owner].total_out]_vars

\* the times a cron expression of the model matches
Occurrence(cron_expr, t) == t % cron_expr = 0

\* C28: a successful renewal sets the subscription's lapsed_at to the smallest
\* occurrence of the contract's cron expression strictly after the previous
\* lapsed_at, so lapsed_at strictly increases with every renewal, and each scheduled
\* lapse of a subscription is charged at most once: a renewal appends one row, and a
\* subscription never has more rows than lapses behind its lapsed_at.
C28_NextLapse ==
    /\ [][RenewalCommits =>
            LET sub == Info.subscription_id
                cron_expr == contracts[Info.contract_id].cron_expr
            IN /\ Len(transactions') = Len(transactions) + 1
               /\ \A t \in subscriptions[sub].lapsed_at :
                  \E n \in subscriptions'[sub].lapsed_at :
                     /\ n > t
                     /\ Occurrence(cron_expr, n)
                     /\ \A k \in (t + 1)..(n - 1) : ~Occurrence(cron_expr, k)]_vars
    /\ [](\A sub \in SubIds :
            /\ subscriptions[sub].lapsed_at = {} =>
                  Cardinality(RenewalsOf(transactions, sub)) <= 1 + MaxTime \div EveryMinute
            /\ \A n \in subscriptions[sub].lapsed_at :
                  Cardinality(RenewalsOf(transactions, sub)) <= n \div EveryMinute)

\* a subscription has been renewed twice: two rows, and its lapsed_at two periods on
C28_Witness ==
    \E sub \in SubIds :
        /\ subscriptions[sub].lapsed_at = {2 * EveryMinute}
        /\ Cardinality(RenewalsOf(transactions, sub)) = 2

\* try_process_lapsed has just read a row and dispatched on it
Dispatched == sched.pc = "waitSub" /\ sched'.pc \in {"cancel", "continue"}

\* cancel_sub has just returned Ok
CancelReturned == sched.pc = "cancel" /\ sched'.pc = "fetch" /\ sched'.result = "Canceled"

\* C29: try_process_lapsed dispatches on status: if the contract is canceled the
\* subscription is canceled whatever its own status and the payer is not debited; if
\* the contract is open or closed and the subscription is active, continue_sub runs;
\* if the contract is open or closed and the subscription is pending or canceled, the
\* subscription is canceled (status canceled, lapsed_at NULL).
C29_Dispatch ==
    [][/\ Dispatched =>
             \E info \in sched'.info :
                 LET sub == subscriptions[info.subscription_id]
                     contract == contracts[sub.contract_id]
                 IN sched'.pc =
                        IF contract.status = "canceled" THEN "cancel"
                        ELSE IF sub.status = "active" THEN "continue"
                        ELSE "cancel"
       /\ CancelReturned =>
             /\ subscriptions'[Info.subscription_id].status = "canceled"
             /\ subscriptions'[Info.subscription_id].lapsed_at = {}
             /\ wallets' = wallets
             /\ transactions' = transactions]_vars

\* the scheduler has just canceled the pending subscription of a contract that is not
\* canceled, and the active subscription of that contract is still to be continued
C29_Witness ==
    /\ sched.result = "Canceled" /\ sched.pc = "fetch"
    /\ \A c \in ContractIds : contracts[c].status # "canceled"
    /\ \E s \in SubIds :
          subscriptions[s].status = "canceled" /\ subscriptions[s].lapsed_at = {}
    /\ \E s \in SubIds :
          subscriptions[s].status = "active" /\ subscriptions[s].lapsed_at # {}

\* subscription s is due: its lapsed_at is inside the window of try_process_lapsed
IsDue(s) == s \in Lapsing(ProcessWindow)

\* no due subscription lapses before time t
NoneDueBefore(t) ==
    \A o \in SubIds : IsDue(o) => \A u \in subscriptions[o].lapsed_at : t <= u

\* C30: each run of try_process_lapsed acts on the subscription with the smallest
\* lapsed_at among those due: the row it selects is a due one with no due subscription
\* lapsing before it, and when it cancels or renews that subscription no other due
\* subscription lapses earlier, so a later-lapsing subscription is never processed
\* while an earlier-lapsing one is still due.
C30_SoonestFirst ==
    [][/\ Dispatched =>
             \E info \in sched'.info :
                 /\ IsDue(info.subscription_id)
                 /\ subscriptions[info.subscription_id].lapsed_at = {info.lapsed_at}
                 /\ NoneDueBefore(info.lapsed_at)
       /\ \A s \in SubIds :
             (subscriptions'[s] # subscriptions[s]) =>
                 /\ sched.pc \in {"cancel", "commit"}
                 /\ Info.subscription_id = s
                 /\ \A t \in subscriptions[s].lapsed_at : NoneDueBefore(t)]_vars

\* try_process_lapsed has selected the subscription that lapsed first while another
\* one, lapsing later, is due as well
C30_Witness ==
    /\ sched.pc \in {"cancel", "continue"}
    /\ \E o \in SubIds :
          /\ o # Info.subscription_id
          /\ IsDue(o)
          /\ \A u \in subscriptions[o].lapsed_at : Info.lapsed_at < u

\* the scheduler is in one of its two waits and recv_drain_all takes a signal
SignalWakes == sched.pc \in {"waitSub", "waitIdle"} /\ chan' < chan

\* the wait timer of the scheduler has fired
TimerFired == \A t \in sched.timer : t <= now

\* try_process_lapsed has run and returned NoneLapsed: the scheduler leaves the wait
\* for the next lapse with that result, no signal taken and the channel open
FoundNoneLapsed ==
    /\ sched.pc = "waitSub" /\ sched'.pc = "fetch" /\ sched'.result = "NoneLapsed"
    /\ chan' = chan /\ senders

\* C31: try_process_lapsed runs only when the timer of the wait for the next lapse
\* fires: a wake by a signal, in either wait, writes nothing to the wallets, the
\* transactions, the contracts or the subscriptions and puts the scheduler back at
\* fetch_soonest_retry, which it runs before it waits again; and the store is written
\* only by the cancel or the commit of a run started by the timer.
C31_SignalOnlyRereads ==
    [][/\ SignalWakes =>
             /\ storeVars' = storeVars
             /\ sched'.pc = "fetch"
             /\ sched'.info = {}
       /\ (sched'.pc \in {"cancel", "continue"} /\ sched.pc # sched'.pc) =>
             /\ sched.pc = "waitSub"
             /\ TimerFired
             /\ chan' = chan
       /\ FoundNoneLapsed => TimerFired
       /\ (sched'.pc \in {"waitSub", "waitIdle"} /\ sched.pc # sched'.pc) =>
             sched.pc = "fetch"
       /\ (storeVars' # storeVars) => sched.pc \in {"cancel", "commit"}]_vars

\* a signal has woken the scheduler while a subscription was due and its timer had
\* not been acted on
C31_Witness ==
    /\ sched.pc = "fetch"
    /\ sched.drained >= 1
    /\ Lapsing(ProcessWindow) # {}
    /\ transactions = <<>>

\* the values of ProcessLapsedError
ProcessLapsedErrors ==
    {"NoneLapsed", "DbError", "Desync", "Unauthorized", "InsufficientFunds"}

\* the positions of the scheduler inside cancel_sub and continue_sub
Processing == {"cancel", "continue", "debit", "credit", "insert", "update", "commit"}

\* try_process_lapsed has just returned an Err
ErrorReturned ==
    \/ /\ sched.pc \in Processing
       /\ sched'.pc \notin Processing
       /\ sched'.result \in ProcessLapsedErrors
    \/ FoundNoneLapsed

\* C32: an Err of try_process_lapsed (NoneLapsed, Desync, a store error,
\* InsufficientFunds or Unauthorized) never stops the scheduler: the step that returns
\* it puts the task back at the top of its loop with nothing of the failed run left,
\* and at the top of its loop the task can always take its next step.
C32_ErrorsDoNotStop ==
    /\ [][ErrorReturned => sched' = LoopAgain(sched'.result)]_vars
    /\ [](sched.pc = "fetch" => ENABLED SchedFetch)
    /\ [](sched.pc \in {"fetch", "waitSub", "waitIdle"} \cup Processing)

\* the scheduler is waiting for the next lapse after a run that returned an Err
C32_Witness ==
    /\ sched.pc = "waitSub"
    /\ sched.result \in {"Unauthorized", "InsufficientFunds", "DbError"}
    /\ sched.timer # {}

\* the data of a token or of a session are a guest's, or hold a key that wallet
\* verification authorizes for their address
HeldByVerifiedKey(data) ==
    \/ data.address = "guest"
    \/ \E pk \in data.private_key : pk \in PrivateKeys /\ AddressOf(pk) = data.address

\* C33: a pending WebSocket token or a hub session holds a non-guest address only if
\* a private key was presented that wallet verification reported as authorized for
\* that address, whether the address was set by POST /ws/start or by a login; a key
\* that fails verification never yields a non-guest token or session.
C33_OnlyVerifiedKeys ==
    /\ \A u \in DOMAIN pending_tokens : HeldByVerifiedKey(pending_tokens[u])
    /\ \A u \in DOMAIN ws_sessions : HeldByVerifiedKey(ws_sessions[u])

\* C34: every Transaction event broadcast for a name ownership transfer refers to a
\* transactions row that is committed in the store: the broadcast happens only after
\* the store transaction commits, and when the commit fails no event has been sent.
C34_BroadcastAfterCommit ==
    \A i \in 1..Len(xfer.sent) :
        \E j \in 1..Len(transactions) : transactions[j] = xfer.sent[i]

\* transfer_ownership has just committed
TransferCommits == xfer.pc = "commit" /\ xfer'.result = "Ok" /\ names' # names

\* C39: transfer_ownership of a name N from its owner O to a new owner P changes the
\* owner of N only: every other name, including every other name owned by O, keeps
\* its owner, last_updated and last_transfered.
C39_OnlyTheName ==
    [][TransferCommits =>
          /\ names'[xfer.name].owner = xfer.to
          /\ \A n \in NameIds \ {xfer.name} : names'[n] = names[n]]_vars

\* C35: for every accepted connection the hello frame is the first frame the server
\* sends on it: under any interleaving of the gateway with broadcast_event or
\* broadcast, no event or broadcast frame is sent to a session before its hello frame.
C35_HelloFirst ==
    \A u \in DOMAIN wire : wire[u] # <<>> => wire[u][1] = "hello"

\* the step is a call of broadcast_event or broadcast, up to the end of its iteration
BroadcastCalled == bcast.state \in {"idle", "panicked"} /\ bcast' # bcast

\* the step resolves the send to one session
SendResolves == bcast.state = "sending" /\ bcast'.pending # bcast.pending

\* the session whose send the step resolves
Resolved == CHOOSE u \in bcast.pending : u \notin bcast'.pending

\* C36: when broadcast_event or broadcast returns, every session whose send failed
\* has been removed from the hub, and every session whose send succeeded or that the
\* filter skipped is still in the hub; the unfiltered broadcast attempts a send to
\* every session connected at the time of the call.  Step by step: the call itself
\* removes nothing and, when unfiltered, has a send pending for every session; a send
\* that succeeds (its frame is on the wire) removes nothing; a send that fails removes
\* its session and no other; and at the return every skipped session is in the hub
\* and every session left in the hub that was sent to has the frame.
C36_FailedSendsCleaned ==
    /\ [][/\ BroadcastCalled =>
                /\ ws_sessions' = ws_sessions
                /\ bcast'.event.kind = "text" => bcast'.pending = DOMAIN ws_sessions
          /\ SendResolves =>
                IF wire'[Resolved] # wire[Resolved]
                THEN ws_sessions' = ws_sessions
                ELSE /\ Resolved \notin DOMAIN ws_sessions'
                     /\ \A u \in DOMAIN ws_sessions \ {Resolved} :
                          u \in DOMAIN ws_sessions' /\ ws_sessions'[u] = ws_sessions[u]]_vars
    /\ [](bcast.state = "idle" =>
            \A u \in DOMAIN bcast.futures :
                IF bcast.futures[u] = 0 THEN u \in DOMAIN ws_sessions
                ELSE u \in DOMAIN ws_sessions =>
                         wire[u][Len(wire[u])] = bcast.event.kind)

\* broadcast has returned: the session whose send failed is gone and the one whose
\* send succeeded is in the hub with the frame
C36_Witness ==
    /\ bcast.state = "idle"
    /\ bcast.event.kind = "text"
    /\ \E u, v \in DOMAIN bcast.futures :
        /\ u \notin DOMAIN ws_sessions
        /\ v \in DOMAIN ws_sessions
        /\ wire[v][Len(wire[v])] = "text"

\* the step is a patch_contract request, as far as its commit or its Err return
RequestHandled == patch.pc = "idle" /\ patch' # patch

\* the step is the send that follows the commit of a patch_contract request
NotifyDone == patch.pc = "notify" /\ patch' # patch

\* C37: patch_contract sends at most one signal on the notification channel per
\* request, and only after its store transaction has committed; a request that fails
\* (validation error, contract not found, session not the owner) changes no field of
\* any contract and sends no signal, and a failed send does not fail the request.
C37_OneSignalAfterCommit ==
    [][/\ RequestHandled =>
             /\ chan' = chan
             /\ patch'.result # "Ok" => contracts' = contracts /\ patch'.pc = "idle"
       /\ NotifyDone =>
             /\ patch.result = "Ok"
             /\ \E body \in patch.body :
                    contracts[patch.id] = PatchedContract(contracts[patch.id], body)
             /\ contracts' = contracts
             /\ chan' \in {chan, chan + 1}
             /\ patch'.pc = "idle"
             /\ patch'.result = "Ok"
             /\ patch'.send_failed <=> chan' = chan
       /\ chan' # chan => NotifyDone]_vars

\* a request that changed the price has been answered Ok although its send failed,
\* after one whose signal is in the channel
C37_Witness ==
    /\ patch.pc = "idle"
    /\ patch.result = "Ok"
    /\ patch.send_failed
    /\ chan = 1
    /\ \E body \in patch.body : body.price = {contracts[patch.id].price}

\* C38: a PATCH by the contract's owner whose only field is status (for example
\* status = canceled) is applied: the stored contract status is updated and, when the
\* new status is closed or canceled, the scheduler is signalled.
C38_StatusOnlyPatch ==
    [][(/\ RequestHandled
        /\ patch'.session = "Owner"
        /\ patch'.id \in ContractIds
        /\ \E body \in patch'.body :
              body.status # {} /\ body.price = {} /\ body.allow_list = {})
          => \E body \in patch'.body :
                /\ contracts'[patch'.id].status \in body.status
                /\ body.status \cap {"closed", "canceled"} # {}
                       => patch'.pc = "notify"]_vars

\* the two create_contract handlers and patch_contract, on one contract_offers table
NextOffers ==
    \/ subs_create_contract
    \/ contracts_create_contract
    \/ patch_contract_columns

SpecOffers == Init /\ [][NextOffers]_vars

\* the column constraints of a contract: title, description, price, max_subscribers
\* and a cron_expr the scheduler can compute the next lapse from
ValidOffer(c) ==
    /\ Len(c.title) >= 1 /\ Len(c.title) <= MaxTitle
    /\ \A desc \in c.description : Len(desc) <= MaxDescription
    /\ c.price > 0
    /\ \A n \in c.max_subscribers : n >= 0
    /\ c.cron_expr # InvalidCron
    /\ \A t \in 0..MaxTime : find_next_occurrence(c.cron_expr, t) > t

\* C40: after any sequence of create_contract and patch_contract calls, every stored
\* contract has a title of 1 to 64 characters, a description that is null or at most
\* 500 characters, price > 0, max_subscribers null or >= 0, and a cron_expr that
\* parses and yields a next occurrence.
C40_StoredContractsValid ==
    \A id \in OfferIds : \A c \in offers[id] : ValidOffer(c)

====
